---- MODULE Spec2Model ----
(***************************************************************************)
(* Funding-rate arbitrage: the historical funding-rate query engine        *)
(* (FundingRateBacktestDataProvider) and the arbitrage controller          *)
(* (FundingRateArbController) with the host steps that drive it.           *)
(*                                                                         *)
(* Decimal values are kept exact.  A funding rate is an integer number of  *)
(* rate units; a rate divided by a funding interval (and every spread and  *)
(* threshold compared with it) is an integer number of 1/IntervalLcm rate  *)
(* units, so the comparisons of the code are comparisons of integers.      *)
(***************************************************************************)
EXTENDS Integers, Sequences, FiniteSets, TLC

VARIABLES
    \* ---- FundingRateBacktestDataProvider -------------------------------
    data_loaded,        \* self.data is not None
    data,               \* self.data: the rows, in DataFrame order
    last_loaded,        \* history: (timestamp, exchange, base) -> the rate of the
                        \* last row of pd.concat(dfs) with that key
    query,              \* the latest get_funding_rate call and what it gave
    \* ---- host: BacktestingDataProvider / engine ------------------------
    time,               \* market_data_provider._time
    funding_feeds,      \* market_data_provider.funding_feeds
    candles_feeds,      \* market_data_provider.candles_feeds
    prices,             \* market_data_provider.prices
    registered,         \* keys of market_data_provider.connectors
    executors_info,     \* controller.executors_info, by executor id
    \* ---- FundingRateArbControllerConfig --------------------------------
    connectors,         \* config.connectors, in the set's iteration order
    tokens,             \* config.tokens
    min_funding_rate_profitability,     \* config.min_funding_rate_profitability
    \* ---- FundingRateArbController --------------------------------------
    active_arbitrages,  \* self.active_arbitrages, token -> arb_info
    decision_log,       \* self.decision_log
    processed_data,     \* self.processed_data
    last_call,          \* the latest handler call: name, returned actions, exception
    halted,             \* an exception left a handler: the replay loop has ended
    called,             \* the handlers the host has called since the last update_state
    \* ---- FundingRateCollector ------------------------------------------
    raw_file,           \* the date file under raw_data_path: Absent until it exists
    last_saved,         \* history: the latest snapshot saved and, by key, its latest rate
    collection,         \* start_collection: its position, is_collecting, its counters
    \* ---- ExtendedFundingDataSource -------------------------------------
    fetch               \* get_historical_funding_rates: its position, requests, result

provider_vars == <<data_loaded, data, last_loaded, query>>
host_vars == <<time, funding_feeds, candles_feeds, prices, registered, executors_info>>
config_vars == <<connectors, tokens, min_funding_rate_profitability>>
controller_vars == <<active_arbitrages, decision_log, processed_data, last_call,
                     halted, called>>
collector_vars == <<raw_file, last_saved, collection, fetch>>
vars == <<data_loaded, data, last_loaded, query, time, funding_feeds, candles_feeds, prices,
          registered, executors_info, connectors, tokens,
          min_funding_rate_profitability, active_arbitrages, decision_log,
          processed_data, last_call, halted, called, raw_file, last_saved,
          collection, fetch>>

None == "None"

\* An Optional[number]: <<>> for None, <<x>> for the value x.
Absent == <<>>
Some(x) == <<x>>

Abs(x) == IF x < 0 THEN -x ELSE x

Range(s) == {s[i] : i \in 1..Len(s)}

Max(S) == CHOOSE x \in S : \A y \in S : y <= x

(***************************************************************************)
(* FundingRateBacktestDataProvider                                         *)
(***************************************************************************)

\* Bounds of the provider's inputs.
MaxRecords == 3
MaxTimestamp == 2

ProviderExchanges == {"extended", "lighter"}
ProviderTokens == {"KAITO", "IP"}
LoadedTokens == {"KAITO"}
ProviderRates == {1, 2}
Timestamps == 0..MaxTimestamp

Row == [timestamp : Timestamps, exchange : ProviderExchanges,
        base : LoadedTokens, funding_rate : ProviderRates]

\* What the parquet files hold, concatenated in file order.
RecordLists == UNION {[1..n -> Row] : n \in 1..MaxRecords}

IsSortedByTimestamp(s) ==
    \A i \in 1..(Len(s) - 1) : s[i].timestamp <= s[i + 1].timestamp

\* DataFrame.sort_values('timestamp') with the default (quicksort) kind: the
\* rows in non-decreasing timestamp order; the order among rows of one
\* timestamp is not fixed by the call.
SortValues(rows) ==
    {[i \in 1..Len(rows) |-> rows[p[i]]] : p \in
        {q \in Permutations(1..Len(rows)) :
            IsSortedByTimestamp([i \in 1..Len(rows) |-> rows[q[i]]])}}

\* get_funding_rate without the timestamp filter of the mask.
MatchingDataNoTimeFilter(rows, timestamp, exchange, token) ==
    SelectSeq(rows, LAMBDA r : r.exchange = exchange /\ r.base = token)

\* self.data[mask]: rows of the exchange and token with timestamp <= the query's.
MatchingData(rows, timestamp, exchange, token) ==
    SelectSeq(rows, LAMBDA r : /\ r.exchange = exchange
                               /\ r.base = token
                               /\ r.timestamp <= timestamp)

\* get_funding_rate with a mask that leaves the timestamp out.
GetFundingRateNoTimeFilter(rows, timestamp, exchange, token) ==
    LET matching_data == MatchingDataNoTimeFilter(rows, timestamp, exchange, token)
    IN  IF matching_data = <<>>
        THEN Absent
        ELSE Some(matching_data[Len(matching_data)].funding_rate)

\* get_funding_rate once the data is loaded: None, or the last matching row's rate.
get_funding_rate(rows, timestamp, exchange, token) ==
    LET matching_data == MatchingData(rows, timestamp, exchange, token)
    IN  IF matching_data = <<>>
        THEN Absent
        ELSE Some(matching_data[Len(matching_data)].funding_rate)

NoQuery == [method |-> None, timestamp |-> 0, exchange |-> None, token |-> None,
            result |-> Absent, raised |-> None]

\* The key of a sample and, per key, the rate of the last row of the
\* concatenation pd.concat(dfs, ignore_index=True) that has the key.
KeyOf(row) == <<row.timestamp, row.exchange, row.base>>

LastOfKey(rows) ==
    [key \in {KeyOf(rows[i]) : i \in 1..Len(rows)} |->
        LET last == Max({i \in 1..Len(rows) : KeyOf(rows[i]) = key})
        IN  rows[last].funding_rate]

load_data ==
    /\ ~data_loaded
    /\ \E files \in RecordLists :
         \E sorted \in SortValues(files) :
            /\ data' = sorted
            /\ data_loaded' = TRUE
            /\ last_loaded' = LastOfKey(files)
    /\ query' = NoQuery
    /\ UNCHANGED <<host_vars, config_vars, collector_vars, controller_vars>>

GetFundingRate ==
    /\ \E timestamp \in Timestamps, exchange \in ProviderExchanges,
          token \in ProviderTokens :
         query' = [method |-> "get_funding_rate",
                   timestamp |-> timestamp, exchange |-> exchange, token |-> token,
                   result |-> IF data_loaded
                              THEN get_funding_rate(data, timestamp, exchange, token)
                              ELSE Absent,
                   raised |-> IF data_loaded THEN None ELSE "RuntimeError"]
    /\ UNCHANGED <<data_loaded, data, last_loaded, host_vars, config_vars, collector_vars, controller_vars>>

\* The (a, b) pairs of two nested loops `for i, a in enumerate(keys): for b in
\* keys[i+1:]`, in order (get_best_spread and _find_best_arbitrage).
RECURSIVE PairsFrom(_, _, _)
PairsFrom(keys, i, j) ==
    IF i > Len(keys) THEN <<>>
    ELSE IF j > Len(keys) THEN PairsFrom(keys, i + 1, i + 2)
    ELSE <<(<<keys[i], keys[j]>>)>> \o PairsFrom(keys, i, j + 1)

\* self.exchanges: sorted(self.data['exchange'].unique().tolist()).
ExchangeOrder == <<"extended", "lighter">>

exchanges(rows) ==
    SelectSeq(ExchangeOrder, LAMBDA e : \E i \in 1..Len(rows) : rows[i].exchange = e)

\* get_spread once the data is loaded: None when either rate is None, else
\* abs(rate1 - rate2) of the rates as they are stored.
get_spread(rows, timestamp, exchange1, exchange2, token) ==
    LET rate1 == get_funding_rate(rows, timestamp, exchange1, token)
        rate2 == get_funding_rate(rows, timestamp, exchange2, token)
    IN  IF rate1 = Absent \/ rate2 = Absent
        THEN Absent
        ELSE Some(Abs(rate1[1] - rate2[1]))

NoPair == [pair |-> <<None, None>>, max_spread |-> 0]

\* The nested loops of get_best_spread over the exchanges that have a rate.
RECURSIVE BestPairOver(_, _, _, _)
BestPairOver(rates, pairs, k, best) ==
    IF k > Len(pairs) THEN best
    ELSE LET spread == Abs(rates[pairs[k][1]] - rates[pairs[k][2]])
         IN  BestPairOver(rates, pairs, k + 1,
                          IF spread > best.max_spread
                          THEN [pair |-> pairs[k], max_spread |-> spread]
                          ELSE best)

\* get_best_spread once the data is loaded: None when fewer than two
\* exchanges have a rate or no pair has a positive spread, else
\* (exchange1, exchange2, spread) of the first pair with the greatest spread.
get_best_spread(rows, timestamp, token) ==
    LET exchanges_list ==
            SelectSeq(exchanges(rows),
                      LAMBDA e : get_funding_rate(rows, timestamp, e, token) # Absent)
        rates == [e \in Range(exchanges_list) |->
                     get_funding_rate(rows, timestamp, e, token)[1]]
        best == BestPairOver(rates, PairsFrom(exchanges_list, 1, 2), 1, NoPair)
    IN  IF Len(exchanges_list) < 2 THEN Absent
        ELSE IF best.pair[1] = None THEN Absent
        ELSE Some(<<best.pair[1], best.pair[2], best.max_spread>>)

\* A query that answers None, without the RuntimeError, while no data is loaded.
AnswerWithoutLoadCheck(loaded, value) ==
    [result |-> IF loaded THEN value ELSE Absent, raised |-> None]

\* `if self.data is None: raise RuntimeError(...)`, then the value.
AnswerOnceLoaded(loaded, value) ==
    IF loaded
    THEN [result |-> value, raised |-> None]
    ELSE [result |-> Absent, raised |-> "RuntimeError"]

GetSpread ==
    /\ \E timestamp \in Timestamps, exchange1 \in ProviderExchanges,
          exchange2 \in ProviderExchanges, token \in ProviderTokens :
         LET answer == AnswerOnceLoaded(data_loaded,
                          get_spread(data, timestamp, exchange1, exchange2, token))
         IN  query' = [method |-> "get_spread", timestamp |-> timestamp,
                       exchange |-> None, exchange1 |-> exchange1,
                       exchange2 |-> exchange2, token |-> token,
                       result |-> answer.result, raised |-> answer.raised]
    /\ UNCHANGED <<data_loaded, data, last_loaded, host_vars, config_vars, collector_vars, controller_vars>>

GetBestSpread ==
    /\ \E timestamp \in Timestamps, token \in ProviderTokens :
         LET answer == AnswerOnceLoaded(data_loaded,
                                        get_best_spread(data, timestamp, token))
         IN  query' = [method |-> "get_best_spread", timestamp |-> timestamp,
                       exchange |-> None, token |-> token,
                       result |-> answer.result, raised |-> answer.raised]
    /\ UNCHANGED <<data_loaded, data, last_loaded, host_vars, config_vars, collector_vars, controller_vars>>

\* self.tokens: sorted(self.data['base'].unique().tolist()).
TokenOrder == <<"IP", "KAITO">>

provider_tokens(rows) ==
    SelectSeq(TokenOrder, LAMBDA t : \E i \in 1..Len(rows) : rows[i].base = t)

\* self.data['timestamp'].unique() of the sorted rows: the timestamps in
\* ascending order.
AllTimestamps(rows) ==
    LET present == {rows[i].timestamp : i \in 1..Len(rows)}
    IN  CHOOSE grid \in [1..Cardinality(present) -> present] :
            \A i, j \in 1..Cardinality(present) : i < j => grid[i] < grid[j]

\* self.data[mask] of interpolate_missing_data: the rows of one pair.
PairData(rows, exchange, token) ==
    SelectSeq(rows, LAMBDA r : r.exchange = exchange /\ r.base = token)

\* set_index('timestamp').reindex(all_timestamps) raises ValueError when the
\* index of the pair has a timestamp twice.
ReindexRaises(pair_data) ==
    \E i, j \in 1..Len(pair_data) :
        i # j /\ pair_data[i].timestamp = pair_data[j].timestamp

\* The funding_rate column after the reindex: the pair's rate at each
\* timestamp of the grid, NaN (Absent) where the pair has no row.
Reindexed(pair_data, grid) ==
    [k \in 1..Len(grid) |->
        IF \E i \in 1..Len(pair_data) : pair_data[i].timestamp = grid[k]
        THEN Some(pair_data[CHOOSE i \in 1..Len(pair_data) :
                                pair_data[i].timestamp = grid[k]].funding_rate)
        ELSE Absent]

\* The limit of fillna(method='ffill', limit=2): consecutive rows filled.
FillLimit == 2

\* fillna(method='ffill', limit=limit): a NaN takes the last value before it
\* when it is at most `limit` rows after that value.
Ffill(column, limit) ==
    [k \in 1..Len(column) |->
        IF column[k] # Absent THEN column[k]
        ELSE LET valid == {j \in 1..(k - 1) : column[j] # Absent}
             IN  IF valid # {} /\ k - Max(valid) <= limit
                 THEN column[Max(valid)]
                 ELSE Absent]

\* One pair after reindex, fill, reset_index and dropna.
InterpolatedPair(rows, exchange, token) ==
    LET grid == AllTimestamps(rows)
        column == Ffill(Reindexed(PairData(rows, exchange, token), grid), FillLimit)
        frame == [k \in 1..Len(grid) |->
                    [timestamp |-> grid[k], exchange |-> exchange, base |-> token,
                     funding_rate |-> column[k]]]
        kept == SelectSeq(frame, LAMBDA r : r.funding_rate # Absent)
    IN  [k \in 1..Len(kept) |-> [kept[k] EXCEPT !.funding_rate = @[1]]]

\* The (exchange, token) pairs of the loops of interpolate_missing_data that
\* have rows, in loop order.
RECURSIVE PairsWithData(_, _, _)
PairsWithData(rows, i, j) ==
    IF i > Len(exchanges(rows)) THEN <<>>
    ELSE IF j > Len(provider_tokens(rows)) THEN PairsWithData(rows, i + 1, 1)
    ELSE (IF PairData(rows, exchanges(rows)[i], provider_tokens(rows)[j]) = <<>>
          THEN <<>>
          ELSE <<(<<exchanges(rows)[i], provider_tokens(rows)[j]>>)>>)
         \o PairsWithData(rows, i, j + 1)

\* pd.concat(interpolated_dfs, ignore_index=True)
RECURSIVE ConcatPairs(_, _, _)
ConcatPairs(rows, pairs, k) ==
    IF k > Len(pairs) THEN <<>>
    ELSE InterpolatedPair(rows, pairs[k][1], pairs[k][2])
         \o ConcatPairs(rows, pairs, k + 1)

\* What a call of interpolate_missing_data can give: RuntimeError without
\* data, ValueError from the reindex of a pair, else the filled rows sorted
\* by timestamp.
InterpolateOutcomes(loaded, rows) ==
    LET pairs == PairsWithData(rows, 1, 1)
    IN  IF ~loaded
        THEN {[result |-> <<>>, raised |-> "RuntimeError"]}
        ELSE IF \E k \in 1..Len(pairs) :
                   ReindexRaises(PairData(rows, pairs[k][1], pairs[k][2]))
        THEN {[result |-> <<>>, raised |-> "ValueError"]}
        ELSE {[result |-> interpolated_data, raised |-> None] :
                 interpolated_data \in SortValues(ConcatPairs(rows, pairs, 1))}

\* interpolate_missing_data assigning its result to self.data.
DataReplacedByInterpolation(rows, outcome) ==
    IF outcome.raised = None THEN outcome.result ELSE rows

\* self.data after interpolate_missing_data: the method assigns nothing to it.
DataAfterInterpolation(rows, outcome) == rows

interpolate_missing_data ==
    /\ \E outcome \in InterpolateOutcomes(data_loaded, data) :
         /\ query' = [method |-> "interpolate_missing_data", timestamp |-> 0,
                      exchange |-> None, token |-> None,
                      result |-> outcome.result, raised |-> outcome.raised]
         /\ data' = DataAfterInterpolation(data, outcome)
    /\ UNCHANGED <<data_loaded, last_loaded, host_vars, config_vars, collector_vars, controller_vars>>

(***************************************************************************)
(* scripts/clean_and_align_funding_data.py: the cleaning of the raw files  *)
(***************************************************************************)

\* What one raw parquet file holds for the token after load_data: a rate at
\* some of the hours (the timestamps are whole hours, counted in hours).
RawFeeds ==
    UNION {[ts -> ProviderRates] : ts \in (SUBSET Timestamps) \ {{}}}

\* The frame of one raw file: one row per sample.
RawFrame(exchange_name, feed) ==
    LET n == Cardinality(DOMAIN feed)
        ts == CHOOSE f \in [1..n -> DOMAIN feed] :
                  \A i, j \in 1..n : i < j => f[i] < f[j]
    IN  [k \in 1..n |-> [timestamp |-> ts[k], exchange |-> exchange_name,
                         base |-> "KAITO", funding_rate |-> feed[ts[k]]]]

\* create_unified_timestamp_grid: the hours from the later of the two starts
\* to the earlier of the two ends.
create_unified_timestamp_grid(extended_df, lighter_df) ==
    LET stamps(df) == {df[i].timestamp : i \in 1..Len(df)}
        Min(S) == CHOOSE x \in S : \A y \in S : x <= y
        grid_start == Max({Min(stamps(extended_df)), Min(stamps(lighter_df))})
        grid_end == Min({Max(stamps(extended_df)), Max(stamps(lighter_df))})
    IN  [k \in 1..(grid_end - grid_start + 1) |-> grid_start + k - 1]

\* The limit of the two fillna calls of align_and_fill_data.
AlignFillLimit == 6

\* fillna(method='bfill', limit=limit): a NaN takes the first value after it
\* when it is at most `limit` rows before that value.
Bfill(column, limit) ==
    [k \in 1..Len(column) |->
        IF column[k] # Absent THEN column[k]
        ELSE LET valid == {j \in (k + 1)..Len(column) : column[j] # Absent}
             IN  IF valid # {}
                    /\ (CHOOSE j \in valid : \A i \in valid : j <= i) - k <= limit
                 THEN column[CHOOSE j \in valid : \A i \in valid : j <= i]
                 ELSE Absent]

\* df['base'].unique(): the tokens in the order of their first row.
UniqueBases(df) ==
    LET bases == {df[i].base : i \in 1..Len(df)}
        first(t) == CHOOSE i \in 1..Len(df) :
                        df[i].base = t /\ \A j \in 1..(i - 1) : df[j].base # t
    IN  CHOOSE seq \in [1..Cardinality(bases) -> bases] :
            \A i, j \in 1..Cardinality(bases) :
                i < j => first(seq[i]) < first(seq[j])

\* The two fillna calls of align_and_fill_data: ffill, then bfill.
FillForwardThenBackward(column) ==
    Bfill(Ffill(column, AlignFillLimit), AlignFillLimit)

\* One token of align_and_fill_data: the left merge of the grid with the
\* token's rows, the two fills, the metadata columns and dropna.
AlignedToken(df, timestamp_grid, exchange_name, token) ==
    LET token_data == SelectSeq(df, LAMBDA r : r.base = token)
        column == FillForwardThenBackward(Reindexed(token_data, timestamp_grid))
        complete_df == [k \in 1..Len(timestamp_grid) |->
                          [timestamp |-> timestamp_grid[k], exchange |-> exchange_name,
                           base |-> token, funding_rate |-> column[k]]]
        kept == SelectSeq(complete_df, LAMBDA r : r.funding_rate # Absent)
    IN  [k \in 1..Len(kept) |-> [kept[k] EXCEPT !.funding_rate = @[1]]]

RECURSIVE AlignedTokens(_, _, _, _, _)
AlignedTokens(df, timestamp_grid, exchange_name, bases, k) ==
    IF k > Len(bases) THEN <<>>
    ELSE AlignedToken(df, timestamp_grid, exchange_name, bases[k])
         \o AlignedTokens(df, timestamp_grid, exchange_name, bases, k + 1)

\* align_and_fill_data: pd.concat of the aligned tokens.
align_and_fill_data(df, timestamp_grid, exchange_name) ==
    AlignedTokens(df, timestamp_grid, exchange_name, UniqueBases(df), 1)

\* main of the script: the grid of the two raw frames and the two cleaned
\* frames; the record keeps the raw rows next to the cleaned ones.
CleanAndAlign ==
    /\ \E ext \in RawFeeds, lig \in RawFeeds :
         LET extended_df == RawFrame("extended", ext)
             lighter_df == RawFrame("lighter", lig)
             timestamp_grid == create_unified_timestamp_grid(extended_df, lighter_df)
             extended_clean == align_and_fill_data(extended_df, timestamp_grid, "extended")
             lighter_clean == align_and_fill_data(lighter_df, timestamp_grid, "lighter")
         IN  query' = [method |-> "align_and_fill_data", timestamp |-> 0,
                       exchange |-> None, token |-> None,
                       raw |-> extended_df \o lighter_df,
                       result |-> extended_clean \o lighter_clean,
                       raised |-> None]
    /\ UNCHANGED <<data_loaded, data, last_loaded, host_vars, config_vars, collector_vars,
                   controller_vars>>

(***************************************************************************)
(* FundingRateCollector.save_snapshot                                      *)
(***************************************************************************)

\* Bound of the snapshots: the rows of one snapshot.
MaxSnapshotRows == 2

\* The collection times of the snapshots of one date.
SnapshotTimes == {0, 1}

SnapshotRow == [timestamp : SnapshotTimes, exchange : ProviderExchanges,
                base : LoadedTokens, funding_rate : ProviderRates]

\* What get_funding_rates_multi_exchange can hand over: the concatenated
\* tickers of the exchanges (an exchange can list a base under two tickers),
\* or an empty frame.
Snapshots == UNION {[1..n -> SnapshotRow] : n \in 0..MaxSnapshotRows}

\* drop_duplicates(subset=['timestamp', 'exchange', 'base'], keep='last'):
\* the rows that have no later row of their key, in their order.
DropDuplicatesKeepLast(rows) ==
    LET kept == {i \in 1..Len(rows) :
                    \A j \in (i + 1)..Len(rows) : KeyOf(rows[j]) # KeyOf(rows[i])}
        at == CHOOSE f \in [1..Cardinality(kept) -> kept] :
                  \A i, j \in 1..Cardinality(kept) : i < j => f[i] < f[j]
    IN  [k \in 1..Cardinality(kept) |-> rows[at[k]]]

\* The file after save_snapshot(data, append): untouched for an empty frame,
\* the de-duplicated concatenation when it exists and append is set, else the
\* frame as it is.
FileAfterSave(file, snapshot, append) ==
    IF snapshot = <<>> THEN file
    ELSE IF append /\ file # Absent
    THEN Some(DropDuplicatesKeepLast(file[1] \o snapshot))
    ELSE Some(snapshot)

\* The history of the saves: the snapshot saved last and the rate saved last
\* for every key.
SavedAfter(saved, snapshot) ==
    IF snapshot = <<>> THEN saved
    ELSE [snapshot |-> snapshot,
          by_key |-> [key \in DOMAIN saved.by_key \cup DOMAIN LastOfKey(snapshot) |->
                        IF key \in DOMAIN LastOfKey(snapshot)
                        THEN LastOfKey(snapshot)[key]
                        ELSE saved.by_key[key]]]

NothingSaved == [snapshot |-> <<>>, by_key |-> <<>>]

\* save_snapshot as start_collection calls it: append=True.
save_snapshot ==
    /\ \E snapshot \in Snapshots :
         /\ raw_file' = FileAfterSave(raw_file, snapshot, TRUE)
         /\ last_saved' = SavedAfter(last_saved, snapshot)
    /\ UNCHANGED <<provider_vars, host_vars, config_vars, controller_vars,
                   collection, fetch>>

(***************************************************************************)
(* FundingRateCollector.start_collection and stop_collection               *)
(***************************************************************************)

\* Bound of a collection run: the snapshots a run without a limit saves.
MaxCollected == 2

\* max_snapshots: None (0 here, `if max_snapshots and ...` treats both alike)
\* or a positive limit.
MaxSnapshotsValues == 0..MaxCollected

\* What collect_single_snapshot hands to the loop: a frame, or None (the
\* empty frame here) when nothing was collected or the fetch failed.
CollectedSnapshots == {snapshot \in Snapshots : Len(snapshot) <= 1}

CollectionIdle ==
    [pc |-> "idle", is_collecting |-> FALSE, snapshot_count |-> 0,
     snapshots_collected |-> 0, max_snapshots |-> 0, source_stopped |-> FALSE,
     stop_requested |-> FALSE, raised |-> None]

\* The limit test of the loop taking one snapshot more than the limit.
ReachedMaxSnapshotsLate(max_snapshots, snapshot_count) ==
    max_snapshots # 0 /\ snapshot_count > max_snapshots

\* `if max_snapshots and snapshot_count >= max_snapshots`
ReachedMaxSnapshots(max_snapshots, snapshot_count) ==
    max_snapshots # 0 /\ snapshot_count >= max_snapshots

\* start_collection up to its first await: is_collecting = True.
start_collection ==
    /\ collection.pc = "idle"
    /\ \E max_snapshots \in MaxSnapshotsValues :
         collection' = [collection EXCEPT !.pc = "start", !.is_collecting = TRUE,
                                          !.max_snapshots = max_snapshots]
    /\ UNCHANGED <<provider_vars, host_vars, config_vars, controller_vars,
                   raw_file, last_saved, fetch>>

\* await self.cg_source.start(): it returns, and snapshot_count = 0, or it
\* raises and the finally block is next.
SourceStart ==
    /\ collection.pc = "start"
    /\ \/ collection' = [collection EXCEPT !.pc = "loop", !.snapshot_count = 0]
       \/ collection' = [collection EXCEPT !.pc = "finally", !.raised = "Exception"]
    /\ UNCHANGED <<provider_vars, host_vars, config_vars, controller_vars,
                   raw_file, last_saved, fetch>>

\* `while self.is_collecting:`
LoopTest ==
    /\ collection.pc = "loop"
    /\ collection' = [collection EXCEPT
                        !.pc = IF collection.is_collecting THEN "collect" ELSE "finally"]
    /\ UNCHANGED <<provider_vars, host_vars, config_vars, controller_vars,
                   raw_file, last_saved, fetch>>

\* One iteration up to its sleep: collect_single_snapshot, save_snapshot and
\* the count for a snapshot that is not None, then the two stopping tests.
CollectAndSave ==
    /\ collection.pc = "collect"
    /\ collection.snapshot_count < MaxCollected
    /\ \E snapshot \in CollectedSnapshots, deadline_reached \in BOOLEAN :
         LET snapshot_count == collection.snapshot_count
                                  + (IF snapshot # <<>> THEN 1 ELSE 0)
         IN  /\ raw_file' = FileAfterSave(raw_file, snapshot, TRUE)
             /\ last_saved' = SavedAfter(last_saved, snapshot)
             /\ collection' =
                  [collection EXCEPT
                     !.snapshot_count = snapshot_count,
                     !.snapshots_collected = @ + (IF snapshot # <<>> THEN 1 ELSE 0),
                     !.pc = IF \/ ReachedMaxSnapshots(collection.max_snapshots,
                                                      snapshot_count)
                               \/ deadline_reached
                            THEN "finally" ELSE "sleep"]
    /\ UNCHANGED <<provider_vars, host_vars, config_vars, controller_vars, fetch>>

\* await asyncio.sleep(wait_seconds): it returns, or it is interrupted
\* (KeyboardInterrupt, swallowed) or fails (re-raised after the finally).
Sleep ==
    /\ collection.pc = "sleep"
    /\ \/ collection' = [collection EXCEPT !.pc = "loop"]
       \/ collection' = [collection EXCEPT !.pc = "finally"]
       \/ collection' = [collection EXCEPT !.pc = "finally", !.raised = "Exception"]
    /\ UNCHANGED <<provider_vars, host_vars, config_vars, controller_vars,
                   raw_file, last_saved, fetch>>

\* The finally block: is_collecting = False, await self.cg_source.stop().
FinallyBlock(c) ==
    [c EXCEPT !.pc = "done", !.is_collecting = FALSE, !.source_stopped = TRUE]

Finally ==
    /\ collection.pc = "finally"
    /\ collection' = FinallyBlock(collection)
    /\ UNCHANGED <<provider_vars, host_vars, config_vars, controller_vars,
                   raw_file, last_saved, fetch>>

\* stop_collection, called while start_collection waits in one of its awaits.
stop_collection ==
    /\ collection.pc \in {"start", "collect", "sleep", "loop"}
    /\ collection' = [collection EXCEPT !.is_collecting = FALSE,
                                        !.stop_requested = TRUE]
    /\ UNCHANGED <<provider_vars, host_vars, config_vars, controller_vars,
                   raw_file, last_saved, fetch>>

NextCollect ==
    \/ start_collection
    \/ SourceStart
    \/ LoopTest
    \/ CollectAndSave
    \/ Sleep
    \/ Finally
    \/ stop_collection


(***************************************************************************)
(* ExtendedFundingDataSource.get_historical_funding_rates                  *)
(***************************************************************************)

\* Bound of the retries: the greatest max_retries of a data source.
MaxRetries == 3

\* One item of the "data" list of a response: T in milliseconds, f the rate
\* (a string in the response; Absent for an empty one).
ResponseItem == [T : {0, 1500, 2000}, f : {Absent, Some(1), Some(2)}]

\* Bound of the items of one response.
MaxItems == 2

\* The "data" lists a successful response can carry.
Responses == UNION {[1..n -> ResponseItem] : n \in 0..MaxItems}

\* The record made of one item: T to seconds (0 for a missing T), f to a
\* number (0.0 for an empty string).
ParsedRecord(item) ==
    [timestamp |-> IF item.T # 0 THEN item.T \div 1000 ELSE 0,
     exchange |-> "extended",
     funding_rate |-> IF item.f # Absent THEN item.f[1] ELSE 0]

\* pd.DataFrame(records) of a response.
ParsedRecords(response) ==
    [k \in 1..Len(response) |-> ParsedRecord(response[k])]

\* What one `async with self._session.get(...)` block can do: give a
\* response, raise an aiohttp.ClientError, or raise asyncio.TimeoutError when
\* the session's ClientTimeout(total=...) expires, which is no ClientError.
AttemptOutcomes ==
    {[kind |-> "ok", response |-> response] : response \in Responses}
    \cup {[kind |-> "ClientError", response |-> <<>>],
          [kind |-> "TimeoutError", response |-> <<>>]}

FetchIdle ==
    [pc |-> "idle", max_retries |-> 0, attempt |-> 0, outcomes |-> <<>>,
     result |-> Absent, raised |-> None]

\* The call up to its first request; range(self.max_retries) may be empty,
\* and the empty frame after the loop is returned then.
get_historical_funding_rates ==
    /\ fetch.pc = "idle"
    /\ \E max_retries \in 0..MaxRetries :
         fetch' = IF max_retries = 0
                  THEN [fetch EXCEPT !.pc = "done", !.result = Some(<<>>)]
                  ELSE [fetch EXCEPT !.pc = "request", !.max_retries = max_retries]
    /\ UNCHANGED <<provider_vars, host_vars, config_vars, controller_vars,
                   raw_file, last_saved, collection>>

\* One pass of the loop body: the request, then the return of the parsed
\* frame, or `except aiohttp.ClientError` (back off, or return the empty
\* frame after the last attempt), or an exception the clause does not catch.
AfterAttempt(f, outcome) ==
    LET tried == [f EXCEPT !.outcomes = Append(@, outcome.kind)]
    IN  IF outcome.kind = "ok"
        THEN [tried EXCEPT !.pc = "done",
                           !.result = Some(ParsedRecords(outcome.response))]
        ELSE IF outcome.kind = "ClientError"
        THEN IF f.attempt < f.max_retries - 1
             THEN [tried EXCEPT !.pc = "backoff"]
             ELSE [tried EXCEPT !.pc = "done", !.result = Some(<<>>)]
        ELSE [tried EXCEPT !.pc = "done", !.raised = outcome.kind]

Request ==
    /\ fetch.pc = "request"
    /\ \E outcome \in AttemptOutcomes : fetch' = AfterAttempt(fetch, outcome)
    /\ UNCHANGED <<provider_vars, host_vars, config_vars, controller_vars,
                   raw_file, last_saved, collection>>

\* await asyncio.sleep(2 ** attempt), then the next attempt.
Backoff ==
    /\ fetch.pc = "backoff"
    /\ fetch' = [fetch EXCEPT !.pc = "request", !.attempt = @ + 1]
    /\ UNCHANGED <<provider_vars, host_vars, config_vars, controller_vars,
                   raw_file, last_saved, collection>>

NextFetch ==
    \/ get_historical_funding_rates
    \/ Request
    \/ Backoff


\* The collector and the data source as constructed.
CollectorIdle ==
    /\ raw_file = Absent
    /\ last_saved = NothingSaved
    /\ collection = CollectionIdle
    /\ fetch = FetchIdle

(***************************************************************************)
(* Configuration (FundingRateArbControllerConfig) and the host's data      *)
(***************************************************************************)

\* Bound of the replay: the number of rows after the first.
MaxSteps == 2

Extended == "extended_perpetual"
Lighter == "lighter_perpetual"
Variational == "variational_perpetual"
AllConnectors == {Extended, Lighter, Variational}

AllTokens == {"KAITO", "IP"}

\* FundingRateArbController.FUNDING_INTERVALS
FUNDING_INTERVALS == (Extended :> 3600 * 8) @@ (Lighter :> 3600 * 1)

\* The common denominator of rate / interval for the intervals above.
IntervalLcm == 3600 * 8

\* A Decimal given in rate units, as a number of 1/IntervalLcm rate units.
Dec(x) == x * IntervalLcm

execution_delay_seconds == 120
leverage == 5
absolute_min_spread_exit == Dec(2)
\* compression_exit_threshold = CompressionNum / CompressionDen
CompressionNum == 1
CompressionDen == 2
max_position_duration_hours == 2
\* max_loss_per_position_pct = MaxLossHundredths / 100
MaxLossHundredths == 3
position_size_quote == 500

BUY == "BUY"
SELL == "SELL"

\* The replay's resolution ("1h"): one row per hour.
StepSeconds == 3600
SampleTimes == {0, StepSeconds}

\* A funding feed: the rows of one (connector, trading pair), timestamp -> rate.
FeedsOver(rates) ==
    UNION {[ts -> rates] : ts \in SUBSET SampleTimes}

EmptyFeed == CHOOSE f \in FeedsOver({0}) : DOMAIN f = {}

\* Rates per funding interval the feeds are drawn from.
ExtendedFeeds == {EmptyFeed, [ts \in {0} |-> 8]}
LighterFeeds == FeedsOver({0, 3, 7})
VariationalFeeds == {[ts \in {0} |-> 1], [ts \in {StepSeconds} |-> 1]}

PnlValues == {0, -30}

\* _get_trading_pair: f"{token}-USD"
_get_trading_pair(token, connector_name) == <<token, "USD">>

TradingPairs == {_get_trading_pair(t, Extended) : t \in AllTokens}

\* BacktestingDataProvider.get_funding_info: the rate of the latest row of the
\* feed with timestamp <= the provider's clock, None when there is none.
get_funding_info(connector_name, trading_pair) ==
    LET feed == funding_feeds[<<connector_name, trading_pair>>]
        past == {ts \in DOMAIN feed : ts <= time}
    IN  IF past = {} THEN Absent ELSE Some(feed[Max(past)])

\* The same query as of another instant (what a delayed query would give).
FundingInfoAsOf(t, connector_name, trading_pair) ==
    LET feed == funding_feeds[<<connector_name, trading_pair>>]
        past == {ts \in DOMAIN feed : ts <= t}
    IN  IF past = {} THEN Absent ELSE Some(feed[Max(past)])

\* BacktestingDataProvider.get_price_by_type: the price of the snapshot, and
\* Decimal("1") for a pair the snapshot does not hold.
get_price_by_type(connector_name, trading_pair) ==
    IF <<connector_name, trading_pair>> \in DOMAIN prices
    THEN prices[<<connector_name, trading_pair>>]
    ELSE 1

(***************************************************************************)
(* FundingRateArbController: the pure helpers                              *)
(***************************************************************************)

\* _get_funding_info_by_token: connector -> rate, for the configured
\* connectors that are registered and have a funding info at the clock.
_get_funding_info_by_token(token) ==
    LET with_info == {c \in Range(connectors) :
                        /\ c \in registered
                        /\ get_funding_info(c, _get_trading_pair(token, c)) # Absent}
    IN  [c \in with_info |-> get_funding_info(c, _get_trading_pair(token, c))[1]]

\* The keys of a funding_rates dict in insertion order: the order in which
\* _get_funding_info_by_token iterated config.connectors.
Keys(funding_rates) ==
    SelectSeq(connectors, LAMBDA c : c \in DOMAIN funding_rates)

\* _validate_funding_rates: at least two entries, none of them without a rate.
_validate_funding_rates(funding_rates) ==
    /\ Cardinality(DOMAIN funding_rates) >= 2
    /\ \A c \in DOMAIN funding_rates : Some(funding_rates[c]) # Absent

\* _normalize_rate dividing by the seconds of an hour whatever the interval is.
NormalizeRateHourly(rate, interval_seconds) ==
    rate * (IntervalLcm \div 3600)

\* _normalize_rate: rate / interval_seconds, in 1/IntervalLcm rate units.
_normalize_rate(rate, interval_seconds) ==
    rate * (IntervalLcm \div interval_seconds)

NoCombo == [connector_1 |-> None, connector_2 |-> None, side |-> None, spread |-> 0]

\* The inner loop of _find_best_arbitrage keeping the smaller spread.
BestStepKeepsSmaller(funding_rates, best, pair) ==
    LET rate1 == _normalize_rate(funding_rates[pair[1]], FUNDING_INTERVALS[pair[1]])
        rate2 == _normalize_rate(funding_rates[pair[2]], FUNDING_INTERVALS[pair[2]])
        spread_hourly == Abs(rate1 - rate2) * 3600
    IN  IF spread_hourly < best.spread
        THEN [connector_1 |-> pair[1], connector_2 |-> pair[2],
              side |-> IF rate1 < rate2 THEN BUY ELSE SELL,
              spread |-> spread_hourly]
        ELSE best

\* The inner loop of _find_best_arbitrage taking a pair whose spread equals
\* the best so far.
BestStepTakesEqual(funding_rates, best, pair) ==
    LET rate1 == _normalize_rate(funding_rates[pair[1]], FUNDING_INTERVALS[pair[1]])
        rate2 == _normalize_rate(funding_rates[pair[2]], FUNDING_INTERVALS[pair[2]])
        spread_hourly == Abs(rate1 - rate2) * 3600
    IN  IF spread_hourly >= best.spread
        THEN [connector_1 |-> pair[1], connector_2 |-> pair[2],
              side |-> IF rate1 < rate2 THEN BUY ELSE SELL,
              spread |-> spread_hourly]
        ELSE best

\* One iteration of the inner loop of _find_best_arbitrage.
BestStep(funding_rates, best, pair) ==
    LET rate1 == _normalize_rate(funding_rates[pair[1]], FUNDING_INTERVALS[pair[1]])
        rate2 == _normalize_rate(funding_rates[pair[2]], FUNDING_INTERVALS[pair[2]])
        spread_hourly == Abs(rate1 - rate2) * 3600
    IN  IF spread_hourly > best.spread
        THEN [connector_1 |-> pair[1], connector_2 |-> pair[2],
              side |-> IF rate1 < rate2 THEN BUY ELSE SELL,
              spread |-> spread_hourly]
        ELSE best

RECURSIVE BestOver(_, _, _, _)
BestOver(funding_rates, pairs, k, best) ==
    IF k > Len(pairs) THEN best
    ELSE BestOver(funding_rates, pairs, k + 1, BestStep(funding_rates, best, pairs[k]))

\* _find_best_arbitrage raises KeyError when a pair it evaluates has a
\* connector without an entry in FUNDING_INTERVALS.
FindBestRaises(funding_rates) ==
    /\ Cardinality(DOMAIN funding_rates) >= 2
    /\ \E c \in DOMAIN funding_rates : c \notin DOMAIN FUNDING_INTERVALS

\* _find_best_arbitrage: (connector_1, connector_2, side, spread) of the first
\* pair with the greatest hourly spread, (None, None, None, 0) when no pair
\* has a positive spread.
_find_best_arbitrage(funding_rates) ==
    BestOver(funding_rates, PairsFrom(Keys(funding_rates), 1, 2), 1, NoCombo)

\* _calculate_current_spread
_calculate_current_spread(funding_rates, conn1, conn2, side) ==
    LET rate1 == _normalize_rate(funding_rates[conn1], FUNDING_INTERVALS[conn1])
        rate2 == _normalize_rate(funding_rates[conn2], FUNDING_INTERVALS[conn2])
    IN  Abs(rate1 - rate2) * 3600

\* _get_active_executors: the ids among executor_ids whose executor is active.
_get_active_executors(executor_ids) ==
    {id \in Range(executor_ids) :
        id \in DOMAIN executors_info /\ executors_info[id].is_active}

RECURSIVE SumPnl(_)
SumPnl(ids) ==
    IF ids = {} THEN 0
    ELSE LET id == CHOOSE x \in ids : TRUE
         IN  executors_info[id].net_pnl_quote + SumPnl(ids \ {id})

\* The four exit rules of _should_exit_position, each on its own.
CompressionRule(arb_info, current_spread) ==
    /\ arb_info.entry_spread > 0
    /\ current_spread * CompressionDen < CompressionNum * arb_info.entry_spread

AbsoluteMinRule(current_spread) ==
    current_spread < absolute_min_spread_exit

MaxDurationRule(arb_info, current_time) ==
    current_time - arb_info.entry_timestamp >= max_position_duration_hours * 3600

\* total_pnl / (position_size_quote * 2) <= -max_loss_per_position_pct, over
\* the executors _get_active_executors returned, when it returned any.
StopLossRule(arb_info) ==
    LET executors == _get_active_executors(arb_info.executors_ids)
        total_pnl == SumPnl(executors)
        position_value == position_size_quote * 2
    IN  /\ executors # {}
        /\ IF position_value > 0
           THEN total_pnl * 100 <= -(MaxLossHundredths * position_value)
           ELSE 0 <= -MaxLossHundredths

\* _should_exit_position with the absolute-minimum rule tried first.
ShouldExitMinimumFirst(arb_info, current_spread, current_time) ==
    IF AbsoluteMinRule(current_spread)
    THEN [should_exit |-> TRUE, reason |-> "Spread below minimum"]
    ELSE IF CompressionRule(arb_info, current_spread)
    THEN [should_exit |-> TRUE, reason |-> "Spread compressed"]
    ELSE IF MaxDurationRule(arb_info, current_time)
    THEN [should_exit |-> TRUE, reason |-> "Max duration"]
    ELSE IF StopLossRule(arb_info)
    THEN [should_exit |-> TRUE, reason |-> "Stop loss"]
    ELSE [should_exit |-> FALSE, reason |-> ""]

\* _should_exit_position: (should_exit, reason); the reason is the kind of
\* the message the code formats.
_should_exit_position(arb_info, current_spread, current_time) ==
    IF CompressionRule(arb_info, current_spread)
    THEN [should_exit |-> TRUE, reason |-> "Spread compressed"]
    ELSE IF AbsoluteMinRule(current_spread)
    THEN [should_exit |-> TRUE, reason |-> "Spread below minimum"]
    ELSE IF MaxDurationRule(arb_info, current_time)
    THEN [should_exit |-> TRUE, reason |-> "Max duration"]
    ELSE IF StopLossRule(arb_info)
    THEN [should_exit |-> TRUE, reason |-> "Stop loss"]
    ELSE [should_exit |-> FALSE, reason |-> ""]

\* _log_decision: the entry appended to decision_log.
LogEntry(action, token, funding_rates, spread, timestamp, reason) ==
    [timestamp |-> timestamp, action |-> action, token |-> token,
     spread |-> spread, reason |-> reason, rates |-> funding_rates]

(***************************************************************************)
(* update_processed_data                                                   *)
(***************************************************************************)

Orders(S) ==
    {s \in [1..Cardinality(S) -> S] : \A i, j \in DOMAIN s : i # j => s[i] # s[j]}

\* The loop body of the scan without the test of active_arbitrages.
ScanTokenNoActiveCheck(acc, token, decision_time) ==
    LET funding_rates == _get_funding_info_by_token(token)
    IN  IF ~_validate_funding_rates(funding_rates) THEN acc
        ELSE IF FindBestRaises(funding_rates)
        THEN [acc EXCEPT !.raised = "KeyError"]
        ELSE LET best == _find_best_arbitrage(funding_rates)
             IN  IF /\ best.connector_1 # None
                    /\ best.spread >= min_funding_rate_profitability
                 THEN [acc EXCEPT
                         !.opportunities = Append(@,
                             [token |-> token,
                              connector_1 |-> best.connector_1,
                              connector_2 |-> best.connector_2,
                              side |-> best.side,
                              expected_spread |-> best.spread,
                              decision_timestamp |-> decision_time,
                              funding_rates |-> funding_rates]),
                         !.log = Append(@, LogEntry("ENTER", token, funding_rates,
                                                    best.spread, decision_time, ""))]
                 ELSE acc

\* The body of the loop over config.tokens for one token.  acc is what the
\* loop has built so far: the opportunities, the log, and whether an
\* exception has left the loop.
ScanToken(acc, token, decision_time) ==
    IF token \in DOMAIN active_arbitrages THEN acc
    ELSE LET funding_rates == _get_funding_info_by_token(token)
         IN  IF ~_validate_funding_rates(funding_rates) THEN acc
             ELSE IF FindBestRaises(funding_rates)
             THEN [acc EXCEPT !.raised = "KeyError"]
             ELSE LET best == _find_best_arbitrage(funding_rates)
                  IN  IF /\ best.connector_1 # None
                         /\ best.spread >= min_funding_rate_profitability
                      THEN [acc EXCEPT
                              !.opportunities = Append(@,
                                  [token |-> token,
                                   connector_1 |-> best.connector_1,
                                   connector_2 |-> best.connector_2,
                                   side |-> best.side,
                                   expected_spread |-> best.spread,
                                   decision_timestamp |-> decision_time,
                                   funding_rates |-> funding_rates]),
                              !.log = Append(@, LogEntry("ENTER", token, funding_rates,
                                                         best.spread, decision_time, ""))]
                      ELSE acc

RECURSIVE ScanLoop(_, _, _, _)
ScanLoop(acc, order, k, decision_time) ==
    IF k > Len(order) \/ acc.raised # None THEN acc
    ELSE ScanLoop(ScanToken(acc, order[k], decision_time), order, k + 1, decision_time)

update_processed_data ==
    /\ ~halted
    /\ "update_processed_data" \notin called
    /\ called' = called \cup {"update_processed_data"}
    /\ \E order \in Orders(tokens) :
         LET current_time == time
             decision_time == current_time - execution_delay_seconds
             out == ScanLoop([opportunities |-> <<>>, log |-> decision_log,
                              raised |-> None], order, 1, decision_time)
         IN  /\ decision_log' = out.log
             /\ processed_data' =
                  IF out.raised # None THEN processed_data
                  ELSE [opportunities |-> out.opportunities,
                        scan_timestamp |-> current_time,
                        decision_timestamp |-> decision_time]
             /\ last_call' = [name |-> "update_processed_data", actions |-> <<>>,
                              raised |-> out.raised]
             /\ halted' = (out.raised # None)
    /\ UNCHANGED <<provider_vars, host_vars, config_vars, collector_vars, active_arbitrages>>

(***************************************************************************)
(* create_actions_proposal                                                 *)
(***************************************************************************)

\* _create_paired_executors giving the second leg the side of the first.
CreatePairedExecutorsSameSide(opportunity, timestamp, id1, id2) ==
    LET token == opportunity.token
        conn1 == opportunity.connector_1
        conn2 == opportunity.connector_2
        side  == opportunity.side
        pair1 == _get_trading_pair(token, conn1)
        price == get_price_by_type(conn1, pair1)
        amount == position_size_quote \div price
        pair2 == _get_trading_pair(token, conn2)
    IN  <<[id |-> id1, timestamp |-> timestamp, connector_name |-> conn1,
           trading_pair |-> pair1, side |-> side, amount |-> amount,
           leverage |-> leverage],
          [id |-> id2, timestamp |-> timestamp, connector_name |-> conn2,
           trading_pair |-> pair2, side |-> side, amount |-> amount,
           leverage |-> leverage]>>

\* _create_paired_executors: the two PositionExecutorConfig, the second on
\* the opposite side; id1 and id2 are the ids the configs are created with.
_create_paired_executors(opportunity, timestamp, id1, id2) ==
    LET token == opportunity.token
        conn1 == opportunity.connector_1
        conn2 == opportunity.connector_2
        side  == opportunity.side
        pair1 == _get_trading_pair(token, conn1)
        price == get_price_by_type(conn1, pair1)
        amount == position_size_quote \div price
        pair2 == _get_trading_pair(token, conn2)
    IN  <<[id |-> id1, timestamp |-> timestamp, connector_name |-> conn1,
           trading_pair |-> pair1, side |-> side, amount |-> amount,
           leverage |-> leverage],
          [id |-> id2, timestamp |-> timestamp, connector_name |-> conn2,
           trading_pair |-> pair2,
           side |-> IF side = BUY THEN SELL ELSE BUY, amount |-> amount,
           leverage |-> leverage]>>

CreateExecutorAction(executor_config) ==
    [type |-> "CreateExecutorAction", executor_id |-> executor_config.id,
     executor_config |-> executor_config]

StopExecutorAction(executor_id) ==
    [type |-> "StopExecutorAction", executor_id |-> executor_id,
     executor_config |-> None]

\* The loop body taking the pair, the side and the spread of the new position
\* from a fresh query of the rates at current_time.
CreateForOpportunityRequery(acc, opp, current_time) ==
    LET n == Len(acc.executors)
        pair == _create_paired_executors(opp, current_time, n + 1, n + 2)
        best == _find_best_arbitrage(_get_funding_info_by_token(opp.token))
    IN  [active |-> [t \in DOMAIN acc.active \cup {opp.token} |->
                        IF t = opp.token
                        THEN [connector_1 |-> opp.connector_1,
                              connector_2 |-> opp.connector_2,
                              executors_ids |-> <<pair[1].id, pair[2].id>>,
                              side |-> opp.side,
                              entry_spread |-> best.spread,
                              entry_timestamp |-> current_time,
                              decision_timestamp |-> opp.decision_timestamp]
                        ELSE acc.active[t]],
         actions |-> acc.actions \o <<CreateExecutorAction(pair[1]),
                                      CreateExecutorAction(pair[2])>>,
         executors |-> acc.executors \o
                         <<[is_active |-> TRUE, net_pnl_quote |-> 0],
                           [is_active |-> TRUE, net_pnl_quote |-> 0]>>]

\* The body of the loop over the opportunities for one opportunity.
CreateForOpportunity(acc, opp, current_time) ==
    LET n == Len(acc.executors)
        pair == _create_paired_executors(opp, current_time, n + 1, n + 2)
    IN  [active |-> [t \in DOMAIN acc.active \cup {opp.token} |->
                        IF t = opp.token
                        THEN [connector_1 |-> opp.connector_1,
                              connector_2 |-> opp.connector_2,
                              executors_ids |-> <<pair[1].id, pair[2].id>>,
                              side |-> opp.side,
                              entry_spread |-> opp.expected_spread,
                              entry_timestamp |-> current_time,
                              decision_timestamp |-> opp.decision_timestamp]
                        ELSE acc.active[t]],
         actions |-> acc.actions \o <<CreateExecutorAction(pair[1]),
                                      CreateExecutorAction(pair[2])>>,
         \* the host starts an executor for each create action it is handed
         executors |-> acc.executors \o
                         <<[is_active |-> TRUE, net_pnl_quote |-> 0],
                           [is_active |-> TRUE, net_pnl_quote |-> 0]>>]

RECURSIVE CreateLoop(_, _, _, _)
CreateLoop(acc, opportunities, k, current_time) ==
    IF k > Len(opportunities) THEN acc
    ELSE CreateLoop(CreateForOpportunity(acc, opportunities[k], current_time),
                    opportunities, k + 1, current_time)

create_actions_proposal ==
    /\ ~halted
    /\ "create_actions_proposal" \notin called
    /\ called' = called \cup {"create_actions_proposal"}
    /\ LET opportunities == processed_data.opportunities
           current_time == time
           out == CreateLoop([active |-> active_arbitrages, actions |-> <<>>,
                              executors |-> executors_info],
                             opportunities, 1, current_time)
       IN  /\ active_arbitrages' = out.active
           /\ executors_info' = out.executors
           /\ last_call' = [name |-> "create_actions_proposal",
                            actions |-> out.actions, raised |-> None]
    /\ UNCHANGED <<provider_vars, time, funding_feeds, candles_feeds, prices,
                   registered, config_vars, collector_vars, decision_log, processed_data, halted>>

(***************************************************************************)
(* stop_actions_proposal                                                   *)
(***************************************************************************)

\* The loop body writing the EXIT entry over the last entry of the log.
StopTokenOverwritesLog(acc, token, current_time) ==
    LET arb_info == active_arbitrages[token]
        current_funding == _get_funding_info_by_token(token)
    IN  IF ~_validate_funding_rates(current_funding) THEN acc
        ELSE LET current_spread ==
                     _calculate_current_spread(current_funding, arb_info.connector_1,
                                               arb_info.connector_2, arb_info.side)
                 exit == _should_exit_position(arb_info, current_spread, current_time)
             IN  IF exit.should_exit
                 THEN [acc EXCEPT
                         !.log = [@ EXCEPT ![Len(@)] =
                                     LogEntry("EXIT", token, current_funding,
                                              current_spread, current_time,
                                              exit.reason)],
                         !.actions = @ \o
                             <<StopExecutorAction(arb_info.executors_ids[1]),
                               StopExecutorAction(arb_info.executors_ids[2])>>,
                         !.active = [t \in DOMAIN @ \ {token} |-> @[t]]]
                 ELSE acc

\* The loop body reading the rates as of the delayed instant
\* current_time - execution_delay_seconds.
StopTokenDelayedRates(acc, token, current_time) ==
    LET arb_info == active_arbitrages[token]
        delayed == current_time - execution_delay_seconds
        with_info == {c \in Range(connectors) :
                        /\ c \in registered
                        /\ FundingInfoAsOf(delayed, c, _get_trading_pair(token, c)) # Absent}
        current_funding ==
            [c \in with_info |-> FundingInfoAsOf(delayed, c, _get_trading_pair(token, c))[1]]
    IN  IF ~_validate_funding_rates(current_funding) THEN acc
        ELSE LET current_spread ==
                     _calculate_current_spread(current_funding, arb_info.connector_1,
                                               arb_info.connector_2, arb_info.side)
                 exit == _should_exit_position(arb_info, current_spread, current_time)
             IN  IF exit.should_exit
                 THEN [acc EXCEPT
                         !.log = Append(@, LogEntry("EXIT", token, current_funding,
                                                    current_spread, current_time,
                                                    exit.reason)),
                         !.actions = @ \o
                             <<StopExecutorAction(arb_info.executors_ids[1]),
                               StopExecutorAction(arb_info.executors_ids[2])>>,
                         !.active = [t \in DOMAIN @ \ {token} |-> @[t]]]
                 ELSE acc

\* The loop body without `del self.active_arbitrages[token]`.
StopTokenKeepsPosition(acc, token, current_time) ==
    LET arb_info == active_arbitrages[token]
        current_funding == _get_funding_info_by_token(token)
    IN  IF ~_validate_funding_rates(current_funding) THEN acc
        ELSE LET current_spread ==
                     _calculate_current_spread(current_funding, arb_info.connector_1,
                                               arb_info.connector_2, arb_info.side)
                 exit == _should_exit_position(arb_info, current_spread, current_time)
             IN  IF exit.should_exit
                 THEN [acc EXCEPT
                         !.log = Append(@, LogEntry("EXIT", token, current_funding,
                                                    current_spread, current_time,
                                                    exit.reason)),
                         !.actions = @ \o
                             <<StopExecutorAction(arb_info.executors_ids[1]),
                               StopExecutorAction(arb_info.executors_ids[2])>>]
                 ELSE acc

\* The body of the loop over list(self.active_arbitrages.items()) for one item.
StopToken(acc, token, current_time) ==
    LET arb_info == active_arbitrages[token]
        current_funding == _get_funding_info_by_token(token)
    IN  IF ~_validate_funding_rates(current_funding) THEN acc
        ELSE IF \E c \in {arb_info.connector_1, arb_info.connector_2} :
                   c \notin DOMAIN current_funding \/ c \notin DOMAIN FUNDING_INTERVALS
        THEN [acc EXCEPT !.raised = "KeyError"]
        ELSE LET current_spread ==
                     _calculate_current_spread(current_funding, arb_info.connector_1,
                                               arb_info.connector_2, arb_info.side)
                 exit == _should_exit_position(arb_info, current_spread, current_time)
             IN  IF exit.should_exit
                 THEN [acc EXCEPT
                         !.log = Append(@, LogEntry("EXIT", token, current_funding,
                                                    current_spread, current_time,
                                                    exit.reason)),
                         !.actions = @ \o
                             <<StopExecutorAction(arb_info.executors_ids[1]),
                               StopExecutorAction(arb_info.executors_ids[2])>>,
                         !.active = [t \in DOMAIN @ \ {token} |-> @[t]]]
                 ELSE acc

RECURSIVE StopLoop(_, _, _, _)
StopLoop(acc, order, k, current_time) ==
    IF k > Len(order) \/ acc.raised # None THEN acc
    ELSE StopLoop(StopToken(acc, order[k], current_time), order, k + 1, current_time)

stop_actions_proposal ==
    /\ ~halted
    /\ "stop_actions_proposal" \notin called
    /\ called' = called \cup {"stop_actions_proposal"}
    /\ \E order \in Orders(DOMAIN active_arbitrages) :
         LET current_time == time
             out == StopLoop([active |-> active_arbitrages, log |-> decision_log,
                              actions |-> <<>>, raised |-> None],
                             order, 1, current_time)
             stopped == {a.executor_id : a \in Range(out.actions)}
         IN  /\ active_arbitrages' = out.active
             /\ decision_log' = out.log
             \* the host stops the executor of each stop action it is handed
             /\ executors_info' =
                  [id \in DOMAIN executors_info |->
                     IF id \in stopped /\ out.raised = None
                     THEN [is_active |-> FALSE, net_pnl_quote |-> 0]
                     ELSE executors_info[id]]
             /\ last_call' = [name |-> "stop_actions_proposal",
                              actions |-> IF out.raised = None THEN out.actions ELSE <<>>,
                              raised |-> out.raised]
             /\ halted' = (out.raised # None)
    /\ UNCHANGED <<provider_vars, time, funding_feeds, candles_feeds, prices,
                   registered, config_vars, collector_vars, processed_data>>

(***************************************************************************)
(* MultiConnectorBacktestingEngine.update_state: the host's step           *)
(***************************************************************************)

TrackedLegs ==
    UNION {Range(active_arbitrages[t].executors_ids) : t \in DOMAIN active_arbitrages}

\* update_executors_info: what the host may report for each leg of an open
\* position that is still active: a new P&L, or that it is no longer active.
\* The controller reads the P&L of active executors only and reads no
\* executor that no position refers to: the P&L of an inactive executor is
\* kept 0 and the other executors are left as they are.
HostReports ==
    {info \in [DOMAIN executors_info ->
                 [is_active : BOOLEAN, net_pnl_quote : PnlValues]] :
        \A id \in DOMAIN executors_info :
           IF id \in TrackedLegs /\ executors_info[id].is_active
           THEN info[id].is_active \/ info[id].net_pnl_quote = 0
           ELSE info[id] = executors_info[id]}

\* The price of one pair taken from the latest candle of the feed, whatever
\* the row's timestamp is.
CandlePriceOfLatestCandle(candles_df, timestamp) ==
    IF DOMAIN candles_df # {}
    THEN Some(candles_df[Max(DOMAIN candles_df)])
    ELSE Absent

\* The price of one pair in update_state: the close of the candle at the
\* row's timestamp, else of the latest candle before it, else no price.
CandlePrice(candles_df, timestamp) ==
    IF timestamp \in DOMAIN candles_df
    THEN Some(candles_df[timestamp])
    ELSE LET candles_before == {ts \in DOMAIN candles_df : ts <= timestamp}
         IN  IF candles_before # {}
             THEN Some(candles_df[Max(candles_before)])
             ELSE Absent

\* The prices dict update_state builds for the row's timestamp.
PriceSnapshot(timestamp) ==
    LET keys == {key \in Range(connectors) \X {<<t, "USD">> : t \in tokens} :
                    /\ key \in DOMAIN candles_feeds
                    /\ CandlePrice(candles_feeds[key], timestamp) # Absent}
    IN  [key \in keys |-> CandlePrice(candles_feeds[key], timestamp)[1]]

\* The prices and the clock move to the row's timestamp;
\* processed_data.update(row) leaves the 'opportunities' key as it is.
update_state ==
    /\ ~halted
    /\ time < MaxSteps * StepSeconds
    /\ time' = time + StepSeconds
    /\ prices' = PriceSnapshot(time')
    /\ executors_info' \in HostReports
    /\ called' = {}
    /\ UNCHANGED <<provider_vars, funding_feeds, candles_feeds, registered, config_vars, collector_vars,
                   active_arbitrages, decision_log, processed_data, last_call, halted>>

(***************************************************************************)
(* The replay of the controller                                            *)
(***************************************************************************)

\* config.connectors in iteration order, the connectors the engine has
\* registered, and the feed of the connector FUNDING_INTERVALS does not list.
Universes ==
    {[connectors |-> <<Extended, Lighter>>, registered |-> {Extended, Lighter},
      variational |-> EmptyFeed],
     [connectors |-> <<Lighter, Extended>>, registered |-> {Extended, Lighter},
      variational |-> EmptyFeed],
     [connectors |-> <<Extended, Lighter, Variational>>,
      registered |-> {Extended, Lighter}, variational |-> EmptyFeed]}
    \cup
    {[connectors |-> <<Extended, Lighter, Variational>>,
      registered |-> AllConnectors, variational |-> f] : f \in VariationalFeeds}

ProviderIdle ==
    /\ data_loaded = FALSE
    /\ data = <<>>
    /\ last_loaded = <<>>
    /\ query = NoQuery

\* The controller and the host's provider as constructed: no position, an
\* empty log, no price published, and a processed_data without the keys of a
\* scan (processed_data.get('opportunities', []) is the empty list).
Constructed ==
    /\ time = 0
    /\ executors_info = <<>>
    /\ prices = <<>>
    /\ active_arbitrages = <<>>
    /\ decision_log = <<>>
    /\ processed_data = [opportunities |-> <<>>]
    /\ last_call = [name |-> None, actions |-> <<>>, raised |-> None]
    /\ halted = FALSE
    /\ called = {}

\* Candles with one close for every pair of the two mock connectors.
FlatCandles ==
    [key \in {Extended, Lighter} \X TradingPairs |-> [ts \in {0} |-> 10]]

Init ==
    /\ ProviderIdle
    /\ CollectorIdle
    /\ time = 0
    /\ executors_info = <<>>
    /\ prices = <<>>
    /\ candles_feeds = FlatCandles
    /\ min_funding_rate_profitability = Dec(2)
    /\ \E u \in Universes :
         /\ connectors = u.connectors
         /\ registered = u.registered
         /\ tokens = {"KAITO"}
         /\ \E ext \in ExtendedFeeds, lig \in LighterFeeds :
              funding_feeds =
                   [key \in AllConnectors \X TradingPairs |->
                      IF key[2][1] # "KAITO" THEN EmptyFeed
                      ELSE CASE key[1] = Extended -> ext
                             [] key[1] = Lighter -> lig
                             [] OTHER -> u.variational]
    /\ active_arbitrages = <<>>
    /\ decision_log = <<>>
    /\ processed_data = [opportunities |-> <<>>]
    /\ last_call = [name |-> None, actions |-> <<>>, raised |-> None]
    /\ halted = FALSE
    /\ called = {}

Next ==
    \/ update_state
    \/ update_processed_data
    \/ create_actions_proposal
    \/ stop_actions_proposal

Spec == Init /\ [][Next]_vars

(***************************************************************************)
(* The queries of the data provider                                        *)
(***************************************************************************)

InitProvider ==
    /\ ProviderIdle
    /\ CollectorIdle
    /\ time = 0
    /\ executors_info = <<>>
    /\ connectors = <<Extended, Lighter>>
    /\ tokens = {"KAITO"}
    /\ min_funding_rate_profitability = Dec(2)
    /\ registered = {Extended, Lighter}
    /\ funding_feeds = [key \in AllConnectors \X TradingPairs |-> EmptyFeed]
    /\ candles_feeds = FlatCandles
    /\ prices = <<>>
    /\ active_arbitrages = <<>>
    /\ decision_log = <<>>
    /\ processed_data = [opportunities |-> <<>>]
    /\ last_call = [name |-> None, actions |-> <<>>, raised |-> None]
    /\ halted = FALSE
    /\ called = {}

NextProvider ==
    \/ load_data
    \/ GetFundingRate

SpecProvider == InitProvider /\ [][NextProvider]_vars

\* The data provider with its three queries.
NextStore ==
    \/ load_data
    \/ GetFundingRate
    \/ GetSpread
    \/ GetBestSpread

SpecStore == InitProvider /\ [][NextStore]_vars

\* The data provider with the interpolation pass.
NextInterpolate ==
    \/ load_data
    \/ GetFundingRate
    \/ interpolate_missing_data

SpecInterpolate == InitProvider /\ [][NextInterpolate]_vars

\* The cleaning script, a program of its own: every run cleans two raw files.
SpecClean == InitProvider /\ [][CleanAndAlign]_vars

\* The collector saving snapshots into one date file.
SpecSave == InitProvider /\ [][save_snapshot]_vars

\* One run of the collection loop with stop_collection calls.
SpecCollect == InitProvider /\ [][NextCollect]_vars

\* One call of get_historical_funding_rates.
SpecFetch == InitProvider /\ [][NextFetch]_vars

(***************************************************************************)
(* The replay over entry configurations: thresholds, equal rates, prices   *)
(***************************************************************************)

\* Lighter rates per hour next to the Extended rate of 8 per 8 hours: 1 is
\* the same normalized rate, 3 is two rate units per hour away.
EntryLighterFeeds ==
    {[ts \in {0} |-> 1], [ts \in {0} |-> 3],
     (0 :> 1) @@ (StepSeconds :> 3), (0 :> 3) @@ (StepSeconds :> 1)}

\* The candles of the Lighter pair: the close of Extended, another close,
\* a close that changes, and no candles feed at all.  The closes divide
\* position_size_quote, so that position_size_quote / price is exact.
EntryLighterCandles ==
    {Some([ts \in {0} |-> 10]), Some([ts \in {0} |-> 5]),
     Some((0 :> 10) @@ (StepSeconds :> 5)), Absent}

EntryThresholds == {0, Dec(2)}

InitEntry ==
    /\ ProviderIdle
    /\ CollectorIdle
    /\ Constructed
    /\ tokens = {"KAITO"}
    /\ registered = {Extended, Lighter}
    /\ connectors \in {<<Extended, Lighter>>, <<Lighter, Extended>>}
    /\ min_funding_rate_profitability \in EntryThresholds
    /\ \E lig \in EntryLighterFeeds :
         funding_feeds =
            [key \in AllConnectors \X TradingPairs |->
               IF key[2][1] # "KAITO" THEN EmptyFeed
               ELSE CASE key[1] = Extended -> [ts \in {0} |-> 8]
                      [] key[1] = Lighter -> lig
                      [] OTHER -> EmptyFeed]
    /\ \E lc \in EntryLighterCandles :
         candles_feeds =
            [key \in {k \in {Extended, Lighter} \X {<<"KAITO", "USD">>} :
                        k[1] = Lighter => lc # Absent} |->
               IF key[1] = Extended THEN [ts \in {0} |-> 10] ELSE lc[1]]

SpecEntry == InitEntry /\ [][Next]_vars

\* The replay over a negative, a zero and a positive threshold.
ThresholdValues == {-Dec(2), 0, Dec(2)}

InitThresholds ==
    /\ ProviderIdle
    /\ CollectorIdle
    /\ Constructed
    /\ tokens = {"KAITO"}
    /\ registered = {Extended, Lighter}
    /\ connectors = <<Extended, Lighter>>
    /\ min_funding_rate_profitability \in ThresholdValues
    /\ candles_feeds = FlatCandles
    /\ \E lig \in EntryLighterFeeds :
         funding_feeds =
            [key \in AllConnectors \X TradingPairs |->
               IF key[2][1] # "KAITO" THEN EmptyFeed
               ELSE CASE key[1] = Extended -> [ts \in {0} |-> 8]
                      [] key[1] = Lighter -> lig
                      [] OTHER -> EmptyFeed]

SpecThresholds == InitThresholds /\ [][Next]_vars

(***************************************************************************)
(* The replay over two tokens and a third connector with funding data      *)
(***************************************************************************)

\* Lighter rates per hour of the first token, which Extended lists too.
TokensLighterFeeds == {[ts \in {0} |-> 7], (0 :> 7) @@ (StepSeconds :> 3)}

\* The Variational feed of the second token, which Lighter lists and
\* Extended does not; the first token has no Variational data.
TokensVariationalFeeds == {EmptyFeed, [ts \in {0} |-> 1], [ts \in {StepSeconds} |-> 1]}

InitTokens ==
    /\ ProviderIdle
    /\ CollectorIdle
    /\ Constructed
    /\ tokens = {"KAITO", "IP"}
    /\ connectors = <<Extended, Lighter, Variational>>
    /\ registered = AllConnectors
    /\ min_funding_rate_profitability = Dec(2)
    /\ candles_feeds = FlatCandles
    /\ \E lig \in TokensLighterFeeds, var \in TokensVariationalFeeds :
         funding_feeds =
            [key \in AllConnectors \X TradingPairs |->
               CASE key[1] = Extended ->
                      IF key[2][1] = "KAITO" THEN [ts \in {0} |-> 8] ELSE EmptyFeed
                 [] key[1] = Lighter ->
                      IF key[2][1] = "KAITO" THEN lig ELSE [ts \in {0} |-> 7]
                 [] OTHER ->
                      IF key[2][1] = "KAITO" THEN EmptyFeed ELSE var]

SpecTokens == InitTokens /\ [][Next]_vars

(***************************************************************************)
(* The replay over candles feeds: candles before, at and after the rows    *)
(***************************************************************************)

\* The candles of the Lighter pair of KAITO: a candle before the rows and one
\* at the last row, candles at every row, a candle at the last row only, and
\* no candles feed at all.
PricesLighterCandles ==
    {Some((0 :> 10) @@ (2 * StepSeconds :> 5)),
     Some((StepSeconds :> 4) @@ (2 * StepSeconds :> 5)),
     Some([ts \in {2 * StepSeconds} |-> 5]),
     Absent}

InitPrices ==
    /\ ProviderIdle
    /\ CollectorIdle
    /\ Constructed
    /\ tokens = {"KAITO", "IP"}
    /\ registered = {Extended, Lighter}
    /\ connectors \in {<<Extended, Lighter>>, <<Lighter, Extended>>}
    /\ min_funding_rate_profitability = Dec(2)
    /\ \E lig \in EntryLighterFeeds :
         funding_feeds =
            [key \in AllConnectors \X TradingPairs |->
               IF key[2][1] # "KAITO" THEN EmptyFeed
               ELSE CASE key[1] = Extended -> [ts \in {0} |-> 8]
                      [] key[1] = Lighter -> lig
                      [] OTHER -> EmptyFeed]
    /\ \E lc \in PricesLighterCandles :
         candles_feeds =
            [key \in {k \in {Extended, Lighter} \X TradingPairs :
                        /\ k = <<Lighter, <<"KAITO", "USD">>>> => lc # Absent
                        /\ k # <<Lighter, <<"IP", "USD">>>>} |->
               CASE key = <<Lighter, <<"KAITO", "USD">>>> -> lc[1]
                 [] key = <<Extended, <<"KAITO", "USD">>>> -> [ts \in {0} |-> 10]
                 [] OTHER -> [ts \in {2 * StepSeconds} |-> 3]]

SpecPrices == InitPrices /\ [][Next]_vars

(***************************************************************************)
(* Properties                                                              *)
(***************************************************************************)

\* The step is a call of the handler h.
CallOf(h) == h \notin called /\ h \in called'

\* The tokens the create actions of a returned list are for.
TokensCreatedBy(actions) ==
    {a.executor_config.trading_pair[1] :
        a \in {b \in Range(actions) : b.type = "CreateExecutorAction"}}

\* The entries a step appended to the decision log.
NewEntries(old, new) == SubSeq(new, Len(old) + 1, Len(new))

\* |rate_1 / interval_1 - rate_2 / interval_2| * 3600 as of the instant t, in
\* 1/IntervalLcm rate units; both connectors have a rate as of t.
HourlySpreadAsOf(t, token, conn1, conn2) ==
    LET r1 == FundingInfoAsOf(t, conn1, <<token, "USD">>)[1]
        r2 == FundingInfoAsOf(t, conn2, <<token, "USD">>)[1]
    IN  Abs(r1 * (IntervalLcm \div FUNDING_INTERVALS[conn1])
            - r2 * (IntervalLcm \div FUNDING_INTERVALS[conn2])) * 3600

\* The exit conditions as the design states them.
Compressed(entry_spread, current_spread) ==
    entry_spread > 0 /\ current_spread * CompressionDen < CompressionNum * entry_spread
BelowMinimum(current_spread) == current_spread < absolute_min_spread_exit
DurationReached(entry_time, current_time) ==
    current_time - entry_time >= max_position_duration_hours * 3600
BothLegsActive(ids) ==
    \A k \in 1..2 : ids[k] \in DOMAIN executors_info /\ executors_info[ids[k]].is_active
LossReached(ids) ==
    /\ BothLegsActive(ids)
    /\ (executors_info[ids[1]].net_pnl_quote + executors_info[ids[2]].net_pnl_quote) * 100
          <= -(MaxLossHundredths * 2 * position_size_quote)

\* C1: after load_data, get_funding_rate(T, exchange, token) gives the rate of
\* a row of that exchange and token whose timestamp is the greatest one <= T,
\* and None exactly when no row of that exchange and token has timestamp <= T.
C1_NoLookahead ==
    (data_loaded /\ query.exchange # None) =>
        LET past == {i \in 1..Len(data) :
                        /\ data[i].exchange = query.exchange
                        /\ data[i].base = query.token
                        /\ data[i].timestamp <= query.timestamp}
        IN  /\ query.raised = None
            /\ IF past = {}
               THEN query.result = Absent
               ELSE \E i \in past :
                      /\ \A j \in past : data[j].timestamp <= data[i].timestamp
                      /\ query.result = Some(data[i].funding_rate)

\* A query answered from a past row while the data holds a later row of the
\* same exchange and token with another rate.
C1_Witness ==
    /\ data_loaded
    /\ query.result # Absent
    /\ \E i \in 1..Len(data) :
         /\ data[i].exchange = query.exchange
         /\ data[i].base = query.token
         /\ data[i].timestamp > query.timestamp
         /\ Some(data[i].funding_rate) # query.result

\* C2: the rates an opportunity was decided on are the as-of rates at its
\* decision_timestamp = current_time - execution_delay_seconds: every rate
\* the scan used is the rate of the latest sample at or before decision_time.
C2_RatesAsOfDecisionTime ==
    \A k \in 1..Len(processed_data.opportunities) :
        LET opp == processed_data.opportunities[k]
        IN  \A c \in DOMAIN opp.funding_rates :
               FundingInfoAsOf(opp.decision_timestamp, c, <<opp.token, "USD">>)
                  = Some(opp.funding_rates[c])

\* C3: create_actions_proposal emits create actions for a token only when
\* the token has no open position (is not in active_arbitrages).
C3_SinglePositionPerToken ==
    [][CallOf("create_actions_proposal") =>
          \A tok \in TokensCreatedBy(last_call'.actions) :
              tok \notin DOMAIN active_arbitrages]_vars

\* The token has an EXIT entry logged at the instant t.
ExitedAt(tok, t) ==
    \E i \in 1..Len(decision_log) :
        /\ decision_log[i].action = "EXIT"
        /\ decision_log[i].token = tok
        /\ decision_log[i].timestamp = t

\* C4: no create action is emitted for a token in the step (the clock value)
\* in which its position was exited.
C4_NoReentryInTheExitStep ==
    [][CallOf("create_actions_proposal") =>
          \A tok \in TokensCreatedBy(last_call'.actions) : ~ExitedAt(tok, time)]_vars

\* C5: the decision log restricted to one token alternates ENTER, EXIT,
\* ENTER, ... starting with ENTER.
C5_LogAlternates ==
    \A tok \in tokens :
        LET entries == SelectSeq(decision_log, LAMBDA e : e.token = tok)
        IN  \A i \in 1..Len(entries) :
               entries[i].action = IF i % 2 = 1 THEN "ENTER" ELSE "EXIT"

\* What alternation implies at every moment: a token never has more EXIT
\* entries than ENTER entries.
ExitsWithinEnters ==
    \A tok \in tokens :
        Len(SelectSeq(decision_log, LAMBDA e : e.token = tok /\ e.action = "EXIT"))
          <= Len(SelectSeq(decision_log, LAMBDA e : e.token = tok /\ e.action = "ENTER"))

\* C6: the reason logged with an exit is that of the first rule that holds in
\* the order compression, absolute minimum, max duration, stop loss.
C6_ExitPriority ==
    [][CallOf("stop_actions_proposal") =>
          \A k \in 1..Len(NewEntries(decision_log, decision_log')) :
              LET e == NewEntries(decision_log, decision_log')[k]
                  arb == active_arbitrages[e.token]
                  first == Compressed(arb.entry_spread, e.spread)
                  second == BelowMinimum(e.spread)
                  third == DurationReached(arb.entry_timestamp, time)
              IN  /\ e.action = "EXIT"
                  /\ (e.reason = "Spread compressed") <=> first
                  /\ (e.reason = "Spread below minimum") <=> (~first /\ second)
                  /\ (e.reason = "Max duration") <=> (~first /\ ~second /\ third)
                  /\ (e.reason = "Stop loss") <=> (~first /\ ~second /\ ~third)]_vars

\* An exit logged as compressed although the spread was below the minimum too.
C6_Witness ==
    \E i \in 1..Len(decision_log) :
        /\ decision_log[i].action = "EXIT"
        /\ decision_log[i].reason = "Spread compressed"
        /\ BelowMinimum(decision_log[i].spread)

\* C7: a position whose two venues have rates at current_time is exited by
\* stop_actions_proposal exactly when compression, absolute minimum, max
\* duration or the loss of the two legs' combined P&L holds.
C7_ExitExactlyWhenARuleHolds ==
    [][CallOf("stop_actions_proposal") =>
          \A tok \in DOMAIN active_arbitrages :
              LET arb == active_arbitrages[tok]
                  pair == <<tok, "USD">>
              IN  (/\ FundingInfoAsOf(time, arb.connector_1, pair) # Absent
                   /\ FundingInfoAsOf(time, arb.connector_2, pair) # Absent)
                  => LET spread == HourlySpreadAsOf(time, tok, arb.connector_1,
                                                    arb.connector_2)
                     IN  (tok \notin DOMAIN active_arbitrages')
                           <=> \/ Compressed(arb.entry_spread, spread)
                               \/ BelowMinimum(spread)
                               \/ DurationReached(arb.entry_timestamp, time)
                               \/ LossReached(arb.executors_ids)]_vars

\* C8: an exit for stop loss is logged only for a position both of whose legs
\* the host reports active.
C8_StopLossNeedsBothLegs ==
    [][CallOf("stop_actions_proposal") =>
          \A k \in 1..Len(NewEntries(decision_log, decision_log')) :
              LET e == NewEntries(decision_log, decision_log')[k]
              IN  e.reason = "Stop loss" =>
                     BothLegsActive(active_arbitrages[e.token].executors_ids)]_vars

\* C9: an opportunity is emitted for a token only if every connector of
\* config.connectors had a rate for it in the scan.
C9_EveryConfiguredVenueHasARate ==
    \A k \in 1..Len(processed_data.opportunities) :
        DOMAIN processed_data.opportunities[k].funding_rates = Range(connectors)

\* C10: a scan in which a configured connector has no funding info for a
\* token (no data, or not registered) raises nothing.
C10_MissingVenueNeverRaises ==
    (/\ last_call.name = "update_processed_data"
     /\ \E tok \in tokens, c \in Range(connectors) :
           c \notin registered \/ FundingInfoAsOf(time, c, <<tok, "USD">>) = Absent)
    => last_call.raised = None

\* The funding interval of a connector in hours.
IntervalHours(c) == FUNDING_INTERVALS[c] \div 3600

\* |rate_a / interval_a - rate_b / interval_b| * 3600 for the rates of a
\* funding_rates map, times IntervalHours(a) * IntervalHours(b) to keep it whole.
ScaledSpread(funding_rates, a, b) ==
    Abs(funding_rates[a] * IntervalHours(b) - funding_rates[b] * IntervalHours(a))
       * IntervalLcm

\* spread is the hourly spread of the rates of a and b.
IsHourlySpread(spread, funding_rates, a, b) ==
    spread * IntervalHours(a) * IntervalHours(b) = ScaledSpread(funding_rates, a, b)

\* rate_a / interval_a < rate_b / interval_b
LowerNormalizedRate(funding_rates, a, b) ==
    funding_rates[a] * IntervalHours(b) < funding_rates[b] * IntervalHours(a)

PairSpreads(funding_rates) ==
    LET pairs == PairsFrom(Keys(funding_rates), 1, 2)
    IN  [i \in 1..Len(pairs) |->
           [pair |-> pairs[i],
            spread |-> Abs(_normalize_rate(funding_rates[pairs[i][1]],
                                           FUNDING_INTERVALS[pairs[i][1]])
                           - _normalize_rate(funding_rates[pairs[i][2]],
                                             FUNDING_INTERVALS[pairs[i][2]])) * 3600]]

\* best is the first pair, in iteration order, of the greatest spread of the
\* map, with the side that its rates give.
IsFirstMaximum(best, funding_rates) ==
    LET ps == PairSpreads(funding_rates)
    IN  \E i \in 1..Len(ps) :
           /\ \A j \in 1..Len(ps) : ps[j].spread <= ps[i].spread
           /\ \A j \in 1..(i - 1) : ps[j].spread < ps[i].spread
           /\ best.connector_1 = ps[i].pair[1]
           /\ best.connector_2 = ps[i].pair[2]
           /\ best.spread = ps[i].spread
           /\ IsHourlySpread(best.spread, funding_rates, ps[i].pair[1], ps[i].pair[2])
           /\ best.side = (IF LowerNormalizedRate(funding_rates, ps[i].pair[1],
                                                  ps[i].pair[2])
                           THEN BUY ELSE SELL)

Emitted(pd, tok) ==
    \E k \in 1..Len(pd.opportunities) : pd.opportunities[k].token = tok

\* The greatest hourly spread over the pairs of the map is >= threshold.
BestSpreadAtLeast(funding_rates, threshold) ==
    \E a, b \in DOMAIN funding_rates :
        /\ a # b
        /\ ScaledSpread(funding_rates, a, b)
             >= threshold * IntervalHours(a) * IntervalHours(b)

\* C13: a scan emits an opportunity for a token without open position whose
\* rates pass the validation exactly when the token's best hourly spread is
\* >= min_funding_rate_profitability.
C13_ThresholdInclusive ==
    [][CallOf("update_processed_data") =>
          \A tok \in tokens :
              LET fr == _get_funding_info_by_token(tok)
              IN  (/\ tok \notin DOMAIN active_arbitrages
                   /\ _validate_funding_rates(fr)
                   /\ DOMAIN fr \subseteq DOMAIN FUNDING_INTERVALS)
                  => (Emitted(processed_data', tok)
                        <=> BestSpreadAtLeast(fr, min_funding_rate_profitability))]_vars

\* C14: the two create actions of every opened position have opposite
\* sides: BUY on the connector of the lower normalized rate among the rates
\* the opportunity was decided on, SELL on the connector of the higher one.
C14_SideConvention ==
    last_call.name = "create_actions_proposal" =>
        /\ Len(last_call.actions) = 2 * Len(processed_data.opportunities)
        /\ \A k \in 1..Len(processed_data.opportunities) :
              LET opp == processed_data.opportunities[k]
                  leg1 == last_call.actions[2 * k - 1].executor_config
                  leg2 == last_call.actions[2 * k].executor_config
                  low == IF LowerNormalizedRate(opp.funding_rates, leg1.connector_name,
                                                leg2.connector_name)
                         THEN leg1 ELSE leg2
                  high == IF low = leg1 THEN leg2 ELSE leg1
              IN  /\ {leg1.connector_name, leg2.connector_name}
                        = {opp.connector_1, opp.connector_2}
                  /\ leg1.connector_name # leg2.connector_name
                  /\ ~(opp.funding_rates[leg1.connector_name]
                          * IntervalHours(leg2.connector_name)
                       = opp.funding_rates[leg2.connector_name]
                          * IntervalHours(leg1.connector_name))
                  /\ low.side = BUY
                  /\ high.side = SELL

\* A position opened with its first leg short: the first connector of the
\* pair had the higher normalized rate.
C14_Witness ==
    /\ last_call.name = "create_actions_proposal"
    /\ Len(last_call.actions) = 2
    /\ last_call.actions[1].executor_config.side = SELL
    /\ last_call.actions[2].executor_config.side = BUY

\* C15: each create action whose connector has a price in the snapshot is
\* sized position_size_quote / (the price of its own connector and pair): its
\* amount times that price is position_size_quote.
C15_LegSizing ==
    [][CallOf("create_actions_proposal") =>
          \A k \in 1..Len(last_call'.actions) :
              LET leg == last_call'.actions[k].executor_config
                  key == <<leg.connector_name, leg.trading_pair>>
              IN  key \in DOMAIN prices =>
                     leg.amount * prices[key] = position_size_quote]_vars

\* C16: a scan emits no opportunity and appends no ENTER entry for a token
\* that is in active_arbitrages when the scan runs.
C16_ScannerIgnoresOpenTokens ==
    [][CallOf("update_processed_data") =>
          \A tok \in DOMAIN active_arbitrages :
              /\ last_call'.raised = None => ~Emitted(processed_data', tok)
              /\ \A k \in 1..Len(NewEntries(decision_log, decision_log')) :
                    NewEntries(decision_log, decision_log')[k].token # tok]_vars

\* A scan has run while the token had an open position and rates that
\* qualify for an entry.
C16_Witness ==
    /\ last_call.name = "update_processed_data"
    /\ last_call.raised = None
    /\ \E tok \in DOMAIN active_arbitrages :
          LET fr == _get_funding_info_by_token(tok)
          IN  /\ _validate_funding_rates(fr)
              /\ DOMAIN fr \subseteq DOMAIN FUNDING_INTERVALS
              /\ BestSpreadAtLeast(fr, min_funding_rate_profitability)
              /\ processed_data.scan_timestamp = time

\* C17: a scan appends one ENTER entry for each token it emits an
\* opportunity for and none for any other token, each with the timestamp
\* decision_time = current_time - execution_delay_seconds.
C17_EnterAuditEntries ==
    [][CallOf("update_processed_data") =>
          LET new == NewEntries(decision_log, decision_log')
          IN  /\ \A k \in 1..Len(new) :
                    /\ new[k].action = "ENTER"
                    /\ new[k].timestamp = time - execution_delay_seconds
              /\ \A tok \in tokens :
                    Cardinality({k \in 1..Len(new) : new[k].token = tok})
                      = IF last_call'.raised = None /\ Emitted(processed_data', tok)
                        THEN 1 ELSE 0]_vars

\* C18: when stop_actions_proposal exits a position it returns exactly two
\* stop actions, one for each leg id the position recorded when it was opened,
\* appends exactly one EXIT entry for the token and removes the token from
\* active_arbitrages; a position it does not exit gets none of the three.
C18_ExitEffects ==
    [][CallOf("stop_actions_proposal") =>
          \A tok \in DOMAIN active_arbitrages :
             LET ids == active_arbitrages[tok].executors_ids
                 actions == last_call'.actions
                 new == NewEntries(decision_log, decision_log')
                 stops == {k \in 1..Len(actions) : actions[k].executor_id \in Range(ids)}
                 exits == {k \in 1..Len(new) : new[k].token = tok}
                 removed == tok \notin DOMAIN active_arbitrages'
             IN  (removed \/ stops # {} \/ exits # {}) =>
                    /\ removed
                    /\ Len(ids) = 2
                    /\ Cardinality(stops) = 2
                    /\ {actions[k].executor_id : k \in stops} = Range(ids)
                    /\ \A k \in stops : actions[k].type = "StopExecutorAction"
                    /\ Cardinality(exits) = 1
                    /\ \A k \in exits : new[k].action = "EXIT"]_vars

\* A scan after the exit of a token has emitted an opportunity for it again.
C18_Witness ==
    /\ last_call.name = "update_processed_data"
    /\ last_call.raised = None
    /\ Len(decision_log) >= 3
    /\ LET n == Len(decision_log)
       IN  /\ decision_log[n].action = "ENTER"
           /\ decision_log[n - 1].action = "EXIT"
           /\ decision_log[n - 1].token = decision_log[n].token
           /\ Emitted(processed_data, decision_log[n].token)
           /\ decision_log[n].token \notin DOMAIN active_arbitrages

\* Under the as-of funding query and a clock that never goes back, the two
\* venues of an open position have a rate at every later instant: the state
\* in which stop_actions_proposal would meet a position with a venue missing
\* from the funding map does not occur in the replay.
OpenPositionVenuesKeepARate ==
    \A tok \in DOMAIN active_arbitrages :
        {active_arbitrages[tok].connector_1, active_arbitrages[tok].connector_2}
            \subseteq DOMAIN _get_funding_info_by_token(tok)

\* The (exchange, token) has no row in the loaded data.
NeverLoaded(exchange, token) ==
    \A i \in 1..Len(data) : ~(data[i].exchange = exchange /\ data[i].base = token)

\* The query asked for an (exchange, token) that has no row in the loaded data.
QueryOfNeverLoaded ==
    CASE query.method = "get_funding_rate" -> NeverLoaded(query.exchange, query.token)
      [] query.method = "get_spread" ->
            \/ NeverLoaded(query.exchange1, query.token)
            \/ NeverLoaded(query.exchange2, query.token)
      [] OTHER -> \A e \in ProviderExchanges : NeverLoaded(e, query.token)

\* C20: get_funding_rate, get_spread and get_best_spread raise RuntimeError and
\* return nothing while no data is loaded; once the data is loaded they raise
\* nothing, and a query of an (exchange, token) that was never loaded returns
\* None.
C20_StoreFailureSemantics ==
    query.method # None =>
        IF data_loaded
        THEN /\ query.raised = None
             /\ QueryOfNeverLoaded => query.result = Absent
        ELSE /\ query.raised = "RuntimeError"
             /\ query.result = Absent

\* After the load, get_spread is asked for a token between an exchange that
\* has a past rate and an exchange the data has no row of, and returns None.
C20_Witness ==
    /\ data_loaded
    /\ query.method = "get_spread"
    /\ query.raised = None
    /\ query.result = Absent
    /\ ~NeverLoaded(query.exchange1, query.token)
    /\ get_funding_rate(data, query.timestamp, query.exchange1, query.token) # Absent
    /\ NeverLoaded(query.exchange2, query.token)

\* C21: when the loaded records hold several samples of one (timestamp,
\* exchange, token), a query of that exchange and token as of a time at or
\* after the timestamp, with no newer sample at or before the query's time,
\* returns the rate of the last-loaded of them.
C21_LastLoadedDuplicateWins ==
    (data_loaded /\ query.method = "get_funding_rate") =>
        \A key \in DOMAIN last_loaded :
            (/\ key[2] = query.exchange
             /\ key[3] = query.token
             /\ key[1] <= query.timestamp
             /\ Cardinality({i \in 1..Len(data) : KeyOf(data[i]) = key}) >= 2
             /\ \A i \in 1..Len(data) :
                   (/\ data[i].exchange = query.exchange
                    /\ data[i].base = query.token
                    /\ data[i].timestamp <= query.timestamp)
                   => data[i].timestamp <= key[1])
            => query.result = Some(last_loaded[key])

\* The seconds between two consecutive timestamps of the provider's samples:
\* the funding interval of Extended.
TickSeconds == 28800

\* The gap the forward fill is meant to stay within ("max 2 hours").
MaxGapSeconds == 7200

\* The row is one of the loaded samples.
IsRealSample(row) == \E i \in 1..Len(data) : data[i] = row

\* C22: every row interpolation returns is a loaded sample or carries the
\* rate of a loaded sample of the same (exchange, token) whose timestamp is
\* within the maximum gap of the row's timestamp.
C22_InterpolationBounded ==
    (query.method = "interpolate_missing_data" /\ query.raised = None) =>
        \A k \in 1..Len(query.result) :
            LET row == query.result[k]
            IN  \/ IsRealSample(row)
                \/ \E i \in 1..Len(data) :
                      /\ data[i].exchange = row.exchange
                      /\ data[i].base = row.base
                      /\ data[i].funding_rate = row.funding_rate
                      /\ Abs(row.timestamp - data[i].timestamp) * TickSeconds
                            <= MaxGapSeconds

\* C29: interpolate_missing_data leaves the provider's loaded data as it was,
\* so that every get_funding_rate query gives after it what it gave before.
C29_InterpolationLeavesData ==
    [][query'.method = "interpolate_missing_data" =>
          /\ data' = data
          /\ data_loaded' = data_loaded
          /\ \A timestamp \in Timestamps, exchange \in ProviderExchanges,
                token \in ProviderTokens :
                get_funding_rate(data', timestamp, exchange, token)
                   = get_funding_rate(data, timestamp, exchange, token)]_vars

\* An interpolation has returned a row that the loaded data does not hold.
C29_Witness ==
    /\ query.method = "interpolate_missing_data"
    /\ query.raised = None
    /\ \E k \in 1..Len(query.result) : ~IsRealSample(query.result[k])

\* C23: after update_state for the row at the clock's value, the snapshot
\* holds, for every (connector, token) pair of the configuration with a
\* candle at or before that instant, the close of the candle at the instant
\* if there is one and else of the latest candle before it, and holds no
\* other key; no price comes from a later candle.
C23_PriceSnapshotAsOf ==
    [][time' # time =>
          /\ time' = time + StepSeconds
          /\ \A key \in DOMAIN prices' :
                key \in Range(connectors) \X {<<t, "USD">> : t \in tokens}
          /\ \A key \in Range(connectors) \X {<<t, "USD">> : t \in tokens} :
                LET past == IF key \in DOMAIN candles_feeds
                            THEN {ts \in DOMAIN candles_feeds[key] : ts <= time'}
                            ELSE {}
                IN  IF past = {}
                    THEN key \notin DOMAIN prices'
                    ELSE /\ key \in DOMAIN prices'
                         /\ prices'[key] = candles_feeds[key][Max(past)]]_vars

\* The snapshot holds the close of a candle before the clock for a pair whose
\* feed has a later candle with another close, and leaves out a pair that has
\* a candles feed.
C23_Witness ==
    /\ time > 0
    /\ \E key \in DOMAIN prices :
          /\ time \notin DOMAIN candles_feeds[key]
          /\ \E ts \in DOMAIN candles_feeds[key] :
                ts > time /\ candles_feeds[key][ts] # prices[key]
    /\ \E key \in DOMAIN candles_feeds : key \notin DOMAIN prices

\* A configuration the error taxonomy calls erroneous: a venue without a
\* funding interval, fewer than two venues, or a leverage that is not positive.
ConfigurationError ==
    \/ \E c \in Range(connectors) : c \notin DOMAIN FUNDING_INTERVALS
    \/ Cardinality(Range(connectors)) < 2
    \/ leverage <= 0

\* C24: a controller constructed with an erroneous configuration runs no
\* step: no handler is ever called with it and none fails with it.
C24_ConfigErrorsFatalAtStartup ==
    ConfigurationError =>
        /\ last_call.name = None
        /\ last_call.raised = None
        /\ ~halted

\* C25: the spread stop_actions_proposal evaluates a position with is the
\* hourly spread between the position's connector_1 and connector_2 as of
\* current_time: an EXIT entry records that spread, an exit for compression or
\* for the absolute minimum is one that spread satisfies, and a position that
\* stays open has a spread as of current_time that satisfies neither.
C25_ExitUsesOwnPairAtCurrentTime ==
    [][CallOf("stop_actions_proposal") =>
          \A tok \in DOMAIN active_arbitrages :
             LET arb == active_arbitrages[tok]
                 spread == HourlySpreadAsOf(time, tok, arb.connector_1, arb.connector_2)
                 new == NewEntries(decision_log, decision_log')
             IN  /\ \A k \in 1..Len(new) :
                       new[k].token = tok =>
                          /\ new[k].spread = spread
                          /\ new[k].timestamp = time
                          /\ new[k].reason = "Spread compressed"
                                => Compressed(arb.entry_spread, spread)
                          /\ new[k].reason = "Spread below minimum"
                                => BelowMinimum(spread)
                 /\ tok \in DOMAIN active_arbitrages' =>
                       /\ ~Compressed(arb.entry_spread, spread)
                       /\ ~BelowMinimum(spread)]_vars

\* A position was exited on a spread as of current_time that differs from the
\* spread of its venues as of current_time - execution_delay_seconds.
C25_Witness ==
    /\ last_call.name = "stop_actions_proposal"
    /\ Len(decision_log) >= 2
    /\ LET exit == decision_log[Len(decision_log)]
       IN  /\ exit.action = "EXIT"
           /\ exit.timestamp = time
           /\ exit.spread = HourlySpreadAsOf(time, exit.token, Extended, Lighter)
           /\ exit.spread # HourlySpreadAsOf(time - execution_delay_seconds,
                                             exit.token, Extended, Lighter)

\* C26: create_actions_proposal records, for each opportunity of the scan,
\* a position with the opportunity's venues, side, spread and decision
\* timestamp: the entry_spread is the spread the scan computed and logged
\* with its decision_time, whatever the rates are when the position is opened.
C26_NoRequeryAtOpen ==
    [][CallOf("create_actions_proposal") =>
          \A k \in 1..Len(processed_data.opportunities) :
             LET opp == processed_data.opportunities[k]
             IN  /\ opp.token \in DOMAIN active_arbitrages'
                 /\ LET arb == active_arbitrages'[opp.token]
                    IN  /\ arb.connector_1 = opp.connector_1
                        /\ arb.connector_2 = opp.connector_2
                        /\ arb.side = opp.side
                        /\ arb.entry_spread = opp.expected_spread
                        /\ arb.decision_timestamp = opp.decision_timestamp
                        /\ \E i \in 1..Len(decision_log) :
                              /\ decision_log[i].action = "ENTER"
                              /\ decision_log[i].token = opp.token
                              /\ decision_log[i].timestamp = arb.decision_timestamp
                              /\ decision_log[i].spread = arb.entry_spread]_vars

\* A position opened at a clock value later than its scan, when the spread
\* of its venues is no longer the spread the scan computed.
C26_Witness ==
    /\ last_call.name = "create_actions_proposal"
    /\ \E tok \in DOMAIN active_arbitrages :
          LET arb == active_arbitrages[tok]
          IN  /\ arb.entry_timestamp = time
              /\ arb.decision_timestamp + execution_delay_seconds < time
              /\ arb.entry_spread
                    # HourlySpreadAsOf(time, tok, arb.connector_1, arb.connector_2)

\* C27: every position in active_arbitrages has
\* entry_timestamp = decision_timestamp + execution_delay_seconds.
C27_DecisionPrecedesExecutionByTheDelay ==
    \A tok \in DOMAIN active_arbitrages :
        active_arbitrages[tok].entry_timestamp
           = active_arbitrages[tok].decision_timestamp + execution_delay_seconds

\* C28: every step leaves the decision log it found as a prefix of the
\* decision log it leaves: no entry is removed or changed.
C28_LogAppendOnly ==
    [][/\ Len(decision_log') >= Len(decision_log)
       /\ SubSeq(decision_log', 1, Len(decision_log)) = decision_log]_vars

\* The log holds the ENTER and the EXIT entry of a position that was opened
\* and exited, and a scan after them has appended a third entry.
C28_Witness ==
    /\ Len(decision_log) >= 3
    /\ decision_log[1].action = "ENTER"
    /\ decision_log[2].action = "EXIT"
    /\ last_call.name = "update_processed_data"
    /\ decision_log[Len(decision_log)].timestamp = time - execution_delay_seconds

\* The leg ids the positions of a map refer to.
LegsOf(active) == UNION {Range(active[t].executors_ids) : t \in DOMAIN active}

\* C30: a leg id that a position refers to stays referred to by a position
\* until a stop action is emitted for it, and create_actions_proposal leaves
\* the record of every position that is open as it is.
C30_NoOrphanedLegs ==
    [][/\ \A id \in LegsOf(active_arbitrages) :
             \/ id \in LegsOf(active_arbitrages')
             \/ /\ CallOf("stop_actions_proposal")
                /\ \E k \in 1..Len(last_call'.actions) :
                      /\ last_call'.actions[k].type = "StopExecutorAction"
                      /\ last_call'.actions[k].executor_id = id
       /\ CallOf("create_actions_proposal") =>
             \A tok \in DOMAIN active_arbitrages :
                 /\ tok \in DOMAIN active_arbitrages'
                 /\ active_arbitrages'[tok] = active_arbitrages[tok]]_vars

\* Once stop_actions_proposal has run in a step, no position in
\* active_arbitrages has current_time - entry_timestamp at or above
\* max_position_duration_hours * 3600: in the replay the venues of an open
\* position keep a rate (OpenPositionVenuesKeepARate), so the exit evaluation
\* never skips one.
NoOverlongPositionAfterExitEvaluation ==
    "stop_actions_proposal" \in called =>
        \A tok \in DOMAIN active_arbitrages :
            ~DurationReached(active_arbitrages[tok].entry_timestamp, time)

\* The replay with a host that keeps issuing steps and runs the exit
\* evaluation in them.
InitLive ==
    /\ ProviderIdle
    /\ CollectorIdle
    /\ Constructed
    /\ tokens = {"KAITO"}
    /\ registered = {Extended, Lighter}
    /\ connectors = <<Extended, Lighter>>
    /\ min_funding_rate_profitability = Dec(2)
    /\ candles_feeds = FlatCandles
    /\ \E lig \in {[ts \in {0} |-> 3], (0 :> 3) @@ (StepSeconds :> 1)} :
         funding_feeds =
            [key \in AllConnectors \X TradingPairs |->
               IF key[2][1] # "KAITO" THEN EmptyFeed
               ELSE CASE key[1] = Extended -> [ts \in {0} |-> 8]
                      [] key[1] = Lighter -> lig
                      [] OTHER -> EmptyFeed]

SpecLive ==
    /\ InitLive
    /\ [][Next]_vars
    /\ WF_vars(update_state)
    /\ WF_vars(stop_actions_proposal)

\* The last instant of the replay.
LastTime == MaxSteps * StepSeconds

\* A position of tok is open whose duration limit falls inside the replay.
OpenWithLimitInReplay(tok) ==
    /\ tok \in DOMAIN active_arbitrages
    /\ active_arbitrages[tok].entry_timestamp
          + max_position_duration_hours * 3600 <= LastTime

C32_Witness ==
    /\ last_call.name = "stop_actions_proposal"
    /\ Len(last_call.actions) = 2
    /\ Len(decision_log) >= 2
    /\ LET e == decision_log[Len(decision_log)]
       IN  /\ e.action = "EXIT"
           /\ e.reason = "Max duration"
           /\ e.timestamp = time
           /\ e.token \notin DOMAIN active_arbitrages
           /\ time >= max_position_duration_hours * 3600

\* The raw rows a filled series was made from.
RawRowsOf(q) == IF q.method = "align_and_fill_data" THEN q.raw ELSE data

\* C33: every row of an interpolated or cleaned series carries the rate of a
\* raw sample of its (exchange, token) whose timestamp is at or before the
\* row's timestamp.
C33_FilledSeriesKeepsCausality ==
    (query.method \in {"interpolate_missing_data", "align_and_fill_data"}
       /\ query.raised = None) =>
        \A k \in 1..Len(query.result) :
            LET row == query.result[k]
                raw == RawRowsOf(query)
            IN  \E i \in 1..Len(raw) :
                   /\ raw[i].exchange = row.exchange
                   /\ raw[i].base = row.base
                   /\ raw[i].timestamp <= row.timestamp
                   /\ raw[i].funding_rate = row.funding_rate

\* C34: a token that is in active_arbitrages before and after a step has the
\* same connector_1, connector_2, side, executors_ids, entry_spread,
\* entry_timestamp and decision_timestamp after it as before.
C34_OpenPositionsAreFrozen ==
    [][\A tok \in DOMAIN active_arbitrages :
          tok \in DOMAIN active_arbitrages' =>
              active_arbitrages'[tok] = active_arbitrages[tok]]_vars

\* C35: every position in active_arbitrages is on two distinct venues and
\* has an entry_spread that is positive and at or above
\* min_funding_rate_profitability, whatever the sign of the threshold.
C35_EntrySpreadPositiveAndAboveThreshold ==
    \A tok \in DOMAIN active_arbitrages :
        LET arb == active_arbitrages[tok]
        IN  /\ arb.connector_1 # arb.connector_2
            /\ arb.entry_spread > 0
            /\ arb.entry_spread >= min_funding_rate_profitability

\* A position with a positive entry spread is open under a negative
\* threshold at a later clock value at which the two venues' normalized rates
\* are equal: a spread of 0, which is above the threshold.
C35_Witness ==
    /\ min_funding_rate_profitability < 0
    /\ "KAITO" \in DOMAIN active_arbitrages
    /\ active_arbitrages["KAITO"].entry_spread > 0
    /\ HourlySpreadAsOf(time, "KAITO", Extended, Lighter) = 0
    /\ time > 0

\* The exchanges that have a sample of the token at or before the timestamp.
ExchangesWithData(timestamp, token) ==
    {e \in ProviderExchanges :
        \E i \in 1..Len(data) : /\ data[i].exchange = e
                                /\ data[i].base = token
                                /\ data[i].timestamp <= timestamp}

\* C36: get_best_spread returns a triple exactly when at least two exchanges
\* have a sample of the token at or before the timestamp, and None otherwise.
C36_BestSpreadPresentIffTwoVenues ==
    (query.method = "get_best_spread" /\ query.raised = None) =>
        (query.result # Absent
           <=> Cardinality(ExchangesWithData(query.timestamp, query.token)) >= 2)

\* The file holds one row for every key that was saved, with the rate saved
\* last for it.
OneLatestRowPerKey(file, saved) ==
    file # Absent =>
        \A key \in DOMAIN saved.by_key :
            /\ Cardinality({i \in 1..Len(file[1]) : KeyOf(file[1][i]) = key}) = 1
            /\ \A i \in 1..Len(file[1]) :
                  KeyOf(file[1][i]) = key => file[1][i].funding_rate = saved.by_key[key]

\* C37: after every save_snapshot(append=True) the date file holds one row
\* per (timestamp, exchange, base), the one saved last, and saving the
\* snapshot that was saved last once more leaves the file as it is.
C37_SaveDeduplicatesAndIsIdempotent ==
    [][/\ OneLatestRowPerKey(raw_file', last_saved')
       /\ (raw_file # Absent /\ last_saved'.snapshot = last_saved.snapshot)
             => raw_file' = raw_file]_vars

\* C38, the limit: with max_snapshots = N > 0 the run has saved at most N
\* snapshots, and fewer than N while it is inside the loop.
LimitKept(c) ==
    c.max_snapshots # 0 =>
        /\ c.snapshot_count <= c.max_snapshots
        /\ c.pc \in {"loop", "collect", "sleep"} => c.snapshot_count < c.max_snapshots

\* C38, the cleanup: when start_collection has ended, is_collecting is False
\* and the data source's stop() has been called.
CleanedUp(c) ==
    c.pc = "done" => (~c.is_collecting /\ c.source_stopped)

\* C38: start_collection with max_snapshots = N > 0 saves at most N snapshots
\* and leaves the loop once N are saved; after a stop_collection call no new
\* iteration begins; and however the loop ends, is_collecting is False and
\* the data source's stop() has been called.
C38_CollectionBoundsAndCleanup ==
    [][/\ LimitKept(collection')
       /\ collection'.snapshot_count - collection.snapshot_count \in {0, 1}
       /\ (collection.stop_requested /\ collection'.pc = "collect")
             => collection.pc = "collect"
       /\ CleanedUp(collection')]_vars

\* A run with a limit of two snapshots has ended on a stop_collection call
\* after one snapshot was saved.
C38_Witness ==
    /\ collection.pc = "done"
    /\ collection.stop_requested
    /\ collection.max_snapshots = 2
    /\ collection.snapshot_count = 1
    /\ raw_file # Absent
    /\ collection.raised = None

\* C39: one call issues at most max_retries requests; it ends with the
\* first successful attempt and returns that attempt's parsed records; and
\* when every attempt failed it returns an empty frame and raises nothing.
C39_BoundedRetry ==
    /\ Len(fetch.outcomes) <= fetch.max_retries
    /\ \A k \in 1..(Len(fetch.outcomes) - 1) : fetch.outcomes[k] # "ok"
    /\ fetch.pc = "done" =>
          /\ fetch.raised = None
          /\ fetch.result # Absent
          /\ (\A k \in 1..Len(fetch.outcomes) : fetch.outcomes[k] # "ok")
                => fetch.result = Some(<<>>)

====
